---- MODULE Spec2Model ----
(***************************************************************************)
(* Streaming sessions of the Gradium SDK: TTSStream (src/resources/tts.ts) *)
(* and STTStream (src/resources/stt.ts).  One session is modelled: the     *)
(* inbound WebSocket events (message, error, close) drive the handlers     *)
(* installed by setupMessageHandler, and the caller drives waitReady,      *)
(* sendText / sendAudio, sendEndOfStream, the async iterators, collect /   *)
(* collectText and close.                                                  *)
(*                                                                         *)
(* Strings that are only compared are TLA+ strings; strings that are built *)
(* (joined texts, base64 payloads, byte arrays) are sequences.             *)
(***************************************************************************)
EXTENDS Integers, Sequences, FiniteSets, TLC

\* ------------------------------------------------------------------ bounds
\* Number of inbound WebSocket events delivered to one session.
MaxEvents == 4
\* Of those, the events that are neither ready, data, end_of_stream nor error
\* envelopes (undecodable payloads, unhandled tags, transport error, close).
MaxFaults == 1
\* Number of waitReady() calls and of collect()/collectText() calls.
MaxCalls == 2
\* Sessions read through one iterator: events delivered, iterators created.
MaxIterEvents == 3
MaxIters == 1
\* Sessions shared by two iterating consumers, waitReady and collect: events
\* delivered, calls of waitReady() and of collect() / collectText().
MaxPairEvents == 2
MaxPairCalls == 1
\* Sessions written to: events delivered, send calls made.
MaxSendEvents == 3
MaxSends == 2
\* Sessions consumed by collect and an iterator started together.
MaxFoldEvents == 3
MaxFolds == 1
\* Sessions iterated under fair scheduling.
MaxLiveEvents == 2
MaxLiveIters == 1
\* Sessions the caller closes.
MaxCloseEvents == 3
MaxCloseCalls == 1
\* Sessions made by the factories.
MaxFactoryEvents == 3
MaxFactoryCalls == 1
\* Sessions closed under suspended consumers.
MaxCancelEvents == 2
MaxCancelCalls == 1
MaxCancelIters == 1
\* Sessions driven by TTS.create / STT.transcribe.
MaxOneShotEvents == 3
\* Sessions used through every operation.
MaxSessionEvents == 2
MaxSessionCalls == 1
MaxSessionIters == 1
\* Sessions that receive payloads that are not JSON.
MaxMalformedEvents == 3
MaxMalformed == 2
MaxMalformedCalls == 1
\* Sessions fed by TTS.streamText / STT.streamAudio.
MaxFeedEvents == 3
MaxFeedItems == 2
MaxFeedIters == 1

\* ------------------------------------------------------- program constants
TTSSampleRate == 48000
STTDefaultSampleRate == 24000
STTDefaultFrameSize == 1920
CleanCloseCode == 1000

\* ------------------------------------------------------------ base64 codec
\* A base64 text is a sequence of symbols: 0..63 are the alphabet's digits,
\* Pad is "=", Illegal is any character outside the alphabet.
Pad == 64
Illegal == 65

\* Mutant of btoa: a last group of one or two bytes is dropped.
btoaWholeGroups(bytes) ==
  LET n == Len(bytes)
  IN [j \in 1..(4 * (n \div 3)) |->
        LET k == 3 * ((j - 1) \div 4)
            r == (j - 1) % 4
        IN CASE r = 0 -> bytes[k + 1] \div 4
             [] r = 1 -> (bytes[k + 1] % 4) * 16 + (bytes[k + 2] \div 16)
             [] r = 2 -> (bytes[k + 2] % 16) * 4 + (bytes[k + 3] \div 64)
             [] r = 3 -> bytes[k + 3] % 64]

\* btoa over the bytes: every group of three bytes gives four digits; a last
\* group of one or two bytes gives two or three digits and padding.
btoa(bytes) ==
  LET n == Len(bytes)
      at(i) == IF i <= n THEN bytes[i] ELSE 0
  IN [j \in 1..(4 * ((n + 2) \div 3)) |->
        LET k == 3 * ((j - 1) \div 4)
            r == (j - 1) % 4
        IN CASE r = 0 -> at(k + 1) \div 4
             [] r = 1 -> (at(k + 1) % 4) * 16 + (at(k + 2) \div 16)
             [] r = 2 -> IF k + 2 <= n
                         THEN (at(k + 2) % 16) * 4 + (at(k + 3) \div 64)
                         ELSE Pad
             [] r = 3 -> IF k + 3 <= n THEN at(k + 3) % 64 ELSE Pad]

\* Digits to bytes: every group of four digits gives three bytes; a tail of
\* two or three digits gives one or two bytes, the spare bits are dropped.
DecodeDigits(d) ==
  LET m == Len(d)
      tail == CASE m % 4 = 2 -> 1 [] m % 4 = 3 -> 2 [] OTHER -> 0
  IN [i \in 1..(3 * (m \div 4) + tail) |->
        LET k == 4 * ((i - 1) \div 3)
            r == (i - 1) % 3
        IN CASE r = 0 -> d[k + 1] * 4 + (d[k + 2] \div 16)
             [] r = 1 -> (d[k + 2] % 16) * 16 + (d[k + 3] \div 4)
             [] r = 2 -> (d[k + 3] % 4) * 64 + d[k + 4]]

\* atob: up to two trailing "=" are removed when the length is a multiple of
\* four; a remaining length of 1 mod 4 or a non-digit throws.
atob(s) ==
  LET n == Len(s)
      stripped ==
        IF n > 0 /\ n % 4 = 0 /\ s[n] = Pad
        THEN IF s[n - 1] = Pad THEN SubSeq(s, 1, n - 2) ELSE SubSeq(s, 1, n - 1)
        ELSE s
      m == Len(stripped)
  IN IF m % 4 = 1 \/ \E i \in 1..m : stripped[i] > 63
     THEN [ok |-> FALSE, bytes |-> <<>>]
     ELSE [ok |-> TRUE, bytes |-> DecodeDigits(stripped)]

\* ------------------------------------------------------------------ errors
NoCode == -1
WebSocketError(message, code) ==
  [name |-> "WebSocketError", message |-> message, code |-> code]
ConnectionError(message) ==
  [name |-> "ConnectionError", message |-> message, code |-> NoCode]
\* Errors raised by the runtime inside the onmessage handler.
SyntaxError ==
  [name |-> "SyntaxError", message |-> "JSON Parse error", code |-> NoCode]
TypeError ==
  [name |-> "TypeError", message |-> "null is not an object", code |-> NoCode]
InvalidCharacterError ==
  [name |-> "InvalidCharacterError", message |-> "The string contains invalid characters.",
   code |-> NoCode]
NotReadyError ==
  WebSocketError("Stream is not ready. Call waitReady() first.", NoCode)

\* ---------------------------------------------------------------- envelopes
Kinds == {"tts", "stt"}

ReadyTTS(rid) == [type |-> "ready", request_id |-> rid]
ReadySTT(rid, rate, frame) ==
  [type |-> "ready", request_id |-> rid, sample_rate |-> rate, frame_size |-> frame]
AudioMsg(b64) == [type |-> "audio", audio |-> b64]
TextMsg(text, start) == [type |-> "text", text |-> text, start_s |-> start]
StepMsg(idx) == [type |-> "step", step_idx |-> idx]
EndOfStream == [type |-> "end_of_stream"]
ErrorMsg(message, code) == [type |-> "error", message |-> message, code |-> code]
\* A tag the handler's switch has no case for (STTEndTextMessage).
EndTextMsg == [type |-> "end_text"]
\* The JSON text "null" parses to null, which has no properties.
JsonNull == [json |-> "null"]
IsNull(m) == m = JsonNull

\* Byte chunks the remote sends as audio, and a payload that is not base64.
ChunkA == <<1, 2, 3>>
ChunkB == <<4, 5, 6, 255>>
BadBase64 == <<16, Illegal, 0, 0>>

ReadyMsgs(k) ==
  IF k = "tts" THEN {ReadyTTS("req-1"), ReadyTTS("req-2")}
  ELSE {ReadySTT("req-1", 24000, 1920), ReadySTT("req-2", 16000, 1280)}
DataMsgs(k) ==
  IF k = "tts" THEN {AudioMsg(btoa(ChunkA)), AudioMsg(btoa(ChunkB))}
  ELSE {TextMsg(<<"H", "i">>, 0), TextMsg(<<"y", "o">>, 5), StepMsg(0)}
ErrorMsgs == {ErrorMsg("Voice not found", 404), ErrorMsg("Invalid audio format", 400)}

\* event.data of a message event: JSON text of a value, or text that is not JSON.
Json(v) == [wellFormed |-> TRUE, value |-> v]
Garbage == [wellFormed |-> FALSE, value |-> JsonNull]
JSONparse(data) ==
  IF data.wellFormed THEN [ok |-> TRUE, value |-> data.value]
  ELSE [ok |-> FALSE, value |-> JsonNull]

\* Payloads of the protocol, and the faulty ones.
ProtocolData(k) == {Json(m) : m \in ReadyMsgs(k) \cup DataMsgs(k) \cup ErrorMsgs \cup {EndOfStream}}
FaultData(k) ==
  {Garbage, Json(JsonNull), Json(EndTextMsg)}
    \cup (IF k = "tts" THEN {Json(AudioMsg(BadBase64))} ELSE {})

\* Close events: unclean with an error code, unclean with code 1000, clean.
CloseEvents ==
  { [code |-> 1006, reason |-> "abnormal", wasClean |-> FALSE],
    [code |-> CleanCloseCode, reason |-> "bye", wasClean |-> FALSE],
    [code |-> CleanCloseCode, reason |-> "", wasClean |-> TRUE] }

\* ---------------------------------------------------------------- promises
NoValue == [none |-> TRUE]
Undefined == [undefined |-> TRUE]
Pending == [state |-> "pending", value |-> NoValue]
\* resolve / reject of a promise: only the first settlement takes effect.
Resolve(p, v) == IF p.state = "pending" THEN [state |-> "fulfilled", value |-> v] ELSE p
Reject(p, e) == IF p.state = "pending" THEN [state |-> "rejected", value |-> e] ELSE p

\* -------------------------------------------------------------------- state
VARIABLES
  stream,        \* the fields of the TTSStream / STTStream object
  ws,            \* the WebSocket: readyState and the log of texts passed to send()
  inbound,       \* the events dispatched so far: how many, how many faulty, the
                 \* first, and the close event once it has been dispatched
  readyCalls,    \* what each waitReady() call, in call order, has observed
  collectCalls,  \* what each collect() / collectText() call has observed
  iters,         \* the async generators created on the stream, in creation order
  lastSend,      \* outcome of the latest sendText / sendAudio / sendEndOfStream call
  factory,       \* the promise of TTS.stream() / STT.stream() that made the session
  orch,          \* the call of create / transcribe / streamText / streamAudio
                 \* that drives the session, with the input generator it feeds from
  http           \* a failed HTTP response and what handleAPIError made of it

vars == <<stream, ws, inbound, readyCalls, collectCalls, iters, lastSend, factory, orch, http>>

\* Field initialisers and constructor.
NewStream(k) ==
  [ kind         |-> k,
    requestId    |-> "",
    sampleRate   |-> IF k = "tts" THEN TTSSampleRate ELSE STTDefaultSampleRate,
    frameSize    |-> IF k = "tts" THEN 0 ELSE STTDefaultFrameSize,
    isReady      |-> FALSE,
    readyPromise |-> Pending,
    endPromise   |-> Pending,
    messageQueue |-> <<>>,
    audioChunks  |-> <<>>,
    textResults  |-> <<>>,
    vadResults   |-> <<>> ]

\* ------------------------------------------------------- the message handler
\* Mutant of caseReady: readyResolve() called without the ready message.
caseReadyNoInfo(s, message) ==
  [s EXCEPT !.requestId = message.request_id,
            !.isReady = TRUE,
            !.readyPromise = Resolve(@, Undefined)]

\* case "ready"
caseReady(s, message) ==
  IF s.kind = "tts"
  THEN [s EXCEPT !.requestId = message.request_id,
                 !.isReady = TRUE,
                 !.readyPromise = Resolve(@, Undefined)]
  ELSE [s EXCEPT !.requestId = message.request_id,
                 !.sampleRate = message.sample_rate,
                 !.frameSize = message.frame_size,
                 !.isReady = TRUE,
                 !.readyPromise = Resolve(@, message)]

\* Mutant of caseAudio: the chunk is put in front of the array (unshift).
caseAudioUnshift(s, message) ==
  LET decoded == atob(message.audio)
  IN IF decoded.ok
     THEN [s EXCEPT !.audioChunks = <<decoded.bytes>> \o @]
     ELSE [s EXCEPT !.endPromise = Reject(@, InvalidCharacterError)]

\* case "audio" (TTSStream): atob may throw, the catch clause rejects endPromise.
caseAudio(s, message) ==
  LET decoded == atob(message.audio)
  IN IF decoded.ok
     THEN [s EXCEPT !.audioChunks = Append(@, decoded.bytes)]
     ELSE [s EXCEPT !.endPromise = Reject(@, InvalidCharacterError)]

\* Mutant of caseText: the array holds the latest result only.
caseTextLatest(s, message) == [s EXCEPT !.textResults = <<message>>]

\* case "text" (STTStream)
caseText(s, message) == [s EXCEPT !.textResults = Append(@, message)]

\* Mutant of caseStep: the step is not stored.
caseStepDropped(s, message) == s

\* case "step" (STTStream)
caseStep(s, message) == [s EXCEPT !.vadResults = Append(@, message)]

\* case "end_of_stream"
caseEndOfStream(s) == [s EXCEPT !.endPromise = Resolve(@, Undefined)]

\* Mutant of caseError: readyReject(error) is left out.
caseErrorEndOnly(s, message) ==
  [s EXCEPT !.endPromise = Reject(@, WebSocketError(message.message, message.code))]

\* Mutant of caseError: the session stops being ready.
caseErrorUnready(s, message) ==
  LET error == WebSocketError(message.message, message.code)
  IN [s EXCEPT !.isReady = FALSE,
               !.readyPromise = Reject(@, error),
               !.endPromise = Reject(@, error)]

\* case "error"
caseError(s, message) ==
  LET error == WebSocketError(message.message, message.code)
  IN [s EXCEPT !.readyPromise = Reject(@, error),
               !.endPromise = Reject(@, error)]

\* switch (message.type), after the message was pushed
dispatch(s, message) ==
  IF message.type = "ready" THEN caseReady(s, message)
  ELSE IF message.type = "audio" /\ s.kind = "tts" THEN caseAudio(s, message)
  ELSE IF message.type = "text" /\ s.kind = "stt" THEN caseText(s, message)
  ELSE IF message.type = "step" /\ s.kind = "stt" THEN caseStep(s, message)
  ELSE IF message.type = "end_of_stream" THEN caseEndOfStream(s)
  ELSE IF message.type = "error" THEN caseError(s, message)
  ELSE s

\* Mutant of onmessage: a payload that does not parse fails both waiters.
onmessageFailingBoth(s, data) ==
  LET parsed == JSONparse(data)
  IN IF ~parsed.ok THEN [s EXCEPT !.readyPromise = Reject(@, SyntaxError),
                                  !.endPromise = Reject(@, SyntaxError)]
     ELSE LET pushed == [s EXCEPT !.messageQueue = Append(@, parsed.value)]
          IN IF IsNull(parsed.value)
             THEN [pushed EXCEPT !.endPromise = Reject(@, TypeError)]
             ELSE dispatch(pushed, parsed.value)

\* ws.onmessage: parse, push, switch; anything thrown rejects endPromise only.
onmessage(s, data) ==
  LET parsed == JSONparse(data)
  IN IF ~parsed.ok THEN [s EXCEPT !.endPromise = Reject(@, SyntaxError)]
     ELSE LET pushed == [s EXCEPT !.messageQueue = Append(@, parsed.value)]
          IN IF IsNull(parsed.value)
             THEN [pushed EXCEPT !.endPromise = Reject(@, TypeError)]
             ELSE dispatch(pushed, parsed.value)

\* ws.onerror
onerror(s) ==
  LET error == ConnectionError("WebSocket error occurred")
  IN [s EXCEPT !.readyPromise = Reject(@, error),
               !.endPromise = Reject(@, error)]

\* ws.onclose
onclose(s, event) ==
  IF ~event.wasClean /\ event.code # CleanCloseCode
  THEN LET error == WebSocketError("WebSocket closed unexpectedly: " \o event.reason,
                                   event.code)
       IN [s EXCEPT !.readyPromise = Reject(@, error),
                    !.endPromise = Reject(@, error)]
  ELSE s

\* ------------------------------------------------------------- aggregation
\* rawData of collect(): every chunk copied at the running offset.
RECURSIVE ConcatChunks(_)
ConcatChunks(chunks) ==
  IF chunks = <<>> THEN <<>> ELSE Head(chunks) \o ConcatChunks(Tail(chunks))

\* Array.prototype.join(" ") over the text fields; a space is one character.
RECURSIVE JoinTexts(_)
JoinTexts(texts) ==
  IF texts = <<>> THEN <<>>
  ELSE IF Len(texts) = 1 THEN texts[1].text
  ELSE texts[1].text \o <<" ">> \o JoinTexts(Tail(texts))

\* Mutant of Aggregate: the texts are joined without a separator.
AggregateNoSeparator(s) ==
  IF s.kind = "tts"
  THEN [raw_data |-> ConcatChunks(s.audioChunks),
        sample_rate |-> s.sampleRate,
        request_id |-> s.requestId]
  ELSE ConcatChunks([i \in DOMAIN s.textResults |-> s.textResults[i].text])

\* The value collect() / collectText() returns once endPromise is fulfilled.
Aggregate(s) ==
  IF s.kind = "tts"
  THEN [raw_data |-> ConcatChunks(s.audioChunks),
        sample_rate |-> s.sampleRate,
        request_id |-> s.requestId]
  ELSE JoinTexts(s.textResults)

\* Mutant of collect: endPromise is not awaited while it is pending.
collectNoAwait(s) ==
  IF s.endPromise.state = "rejected" THEN s.endPromise
  ELSE [state |-> "fulfilled", value |-> Aggregate(s)]

\* collect() / collectText(): await endPromise, then aggregate the buffers as
\* they are when the continuation runs.
collect(s) ==
  IF s.endPromise.state = "pending" THEN Pending
  ELSE IF s.endPromise.state = "rejected" THEN s.endPromise
  ELSE [state |-> "fulfilled", value |-> Aggregate(s)]

\* waitReady(): the caller observes readyPromise.
waitReady(s) == s.readyPromise

\* Continuations of the awaits run in the microtasks that follow the handler
\* that settled the promise, before the next event is dispatched.
FlushReady(calls, s) ==
  [i \in DOMAIN calls |-> IF calls[i].state = "pending" THEN waitReady(s) ELSE calls[i]]
FlushCollect(calls, s) ==
  [i \in DOMAIN calls |-> IF calls[i].state = "pending" THEN collect(s) ELSE calls[i]]

\* --------------------------------------------------------------- iterators
Selectors(k) == IF k = "tts" THEN {"audio"} ELSE {"text", "vad", "all"}

\* The array an iterator indexes.
Buffer(s, sel) ==
  CASE sel = "audio" -> s.audioChunks
    [] sel = "text"  -> s.textResults
    [] sel = "vad"   -> s.vadResults
    [] sel = "all"   -> s.messageQueue

\* messageQueue.some(msg => msg.type === "end_of_stream" || msg.type === "error"),
\* scanning from index from; reading .type of null throws.
RECURSIVE hasEnded(_, _)
hasEnded(queue, from) ==
  IF from > Len(queue) THEN "false"
  ELSE IF IsNull(queue[from]) THEN "throw"
  ELSE IF queue[from].type \in {"end_of_stream", "error"} THEN "true"
  ELSE hasEnded(queue, from + 1)

NewIter(sel) == [sel |-> sel, pc |-> "start", processedIndex |-> 0, yielded |-> <<>>]

\* Mutant of skipReady: step messages are passed over as well.
RECURSIVE skipReadyAndStep(_, _)
skipReadyAndStep(queue, idx) ==
  IF idx < Len(queue) /\ ~IsNull(queue[idx + 1]) /\ queue[idx + 1].type \in {"ready", "step"}
  THEN skipReadyAndStep(queue, idx + 1)
  ELSE idx

\* iter(): the inner loop passes over ready messages without yielding.
RECURSIVE skipReady(_, _)
skipReady(queue, idx) ==
  IF idx < Len(queue) /\ ~IsNull(queue[idx + 1]) /\ queue[idx + 1].type = "ready"
  THEN skipReady(queue, idx + 1)
  ELSE idx

\* Mutant of runLoop: the end of the stream is checked before the unread
\* entries are yielded.
runLoopEndFirst(it, s) ==
  LET buf == Buffer(s, it.sel)
      idx == IF it.sel = "all" THEN skipReady(buf, it.processedIndex)
             ELSE it.processedIndex
      at  == [it EXCEPT !.processedIndex = idx]
  IN CASE hasEnded(s.messageQueue, 1) = "true"  -> [at EXCEPT !.pc = "done"]
       [] hasEnded(s.messageQueue, 1) = "throw" -> [at EXCEPT !.pc = "threw"]
       [] hasEnded(s.messageQueue, 1) = "false" ->
            IF idx < Len(buf)
            THEN [at EXCEPT !.pc = "yield", !.yielded = Append(@, buf[idx + 1])]
            ELSE [at EXCEPT !.pc = "sleep"]

\* Mutant of runLoop: the loop does not break when the stream has ended.
runLoopNoBreak(it, s) ==
  LET buf == Buffer(s, it.sel)
      idx == IF it.sel = "all" THEN skipReady(buf, it.processedIndex)
             ELSE it.processedIndex
      at  == [it EXCEPT !.processedIndex = idx]
  IN IF idx < Len(buf)
     THEN IF it.sel = "all" /\ IsNull(buf[idx + 1])
          THEN [at EXCEPT !.pc = "threw"]
          ELSE [at EXCEPT !.pc = "yield", !.yielded = Append(@, buf[idx + 1])]
     ELSE [at EXCEPT !.pc = "sleep"]

\* The generator body from the top of while (true) to its next suspension:
\* a yield, the 10 ms sleep, the break, or an exception.
runLoop(it, s) ==
  LET buf == Buffer(s, it.sel)
      idx == IF it.sel = "all" THEN skipReady(buf, it.processedIndex)
             ELSE it.processedIndex
      at  == [it EXCEPT !.processedIndex = idx]
  IN IF idx < Len(buf)
     THEN IF it.sel = "all" /\ IsNull(buf[idx + 1])
          THEN [at EXCEPT !.pc = "threw"]
          ELSE [at EXCEPT !.pc = "yield", !.yielded = Append(@, buf[idx + 1])]
     ELSE CASE hasEnded(s.messageQueue, 1) = "true"  -> [at EXCEPT !.pc = "done"]
            [] hasEnded(s.messageQueue, 1) = "throw" -> [at EXCEPT !.pc = "threw"]
            [] hasEnded(s.messageQueue, 1) = "false" -> [at EXCEPT !.pc = "sleep"]

\* Mutant of resume: the cursor moves two entries on.
resumeSkip(it, s) ==
  IF it.pc = "yield"
  THEN runLoop([it EXCEPT !.processedIndex = @ + 2], s)
  ELSE runLoop(it, s)

\* next() on a generator suspended at a yield: processedIndex++ and on.
resume(it, s) ==
  IF it.pc = "yield"
  THEN runLoop([it EXCEPT !.processedIndex = @ + 1], s)
  ELSE runLoop(it, s)

\* ------------------------------------------------------------------- sends
\* JSON.stringify of an outbound envelope: the text that parses back to it.
JSONstringify(v) == Json(v)

\* Inputs of the send calls.
Texts == {<<"H", "e", "y">>}
AudioInputs == {ChunkA, <<7>>}

\* sendText(text): [threw, sent] is the exception raised, if any, and the
\* socket's sent log after the call.
sendText(s, sent, text) ==
  IF ~s.isReady
  THEN [threw |-> NotReadyError, sent |-> sent]
  ELSE [threw |-> NoValue,
        sent |-> Append(sent, JSONstringify([type |-> "text", text |-> text]))]

\* Mutant of sendAudio: the isReady check is left out.
sendAudioUnguarded(s, sent, audio) ==
  [threw |-> NoValue,
   sent |-> Append(sent, JSONstringify([type |-> "audio", audio |-> btoa(audio)]))]

\* sendAudio(audio)
sendAudio(s, sent, audio) ==
  IF ~s.isReady
  THEN [threw |-> NotReadyError, sent |-> sent]
  ELSE [threw |-> NoValue,
        sent |-> Append(sent, JSONstringify([type |-> "audio", audio |-> btoa(audio)]))]

\* Mutant of sendEndOfStream: the call is guarded like sendText.
sendEndOfStreamGuarded(s, sent) ==
  IF ~s.isReady
  THEN [threw |-> NotReadyError, sent |-> sent]
  ELSE [threw |-> NoValue, sent |-> Append(sent, JSONstringify([type |-> "end_of_stream"]))]

\* sendEndOfStream()
sendEndOfStream(s, sent) ==
  [threw |-> NoValue, sent |-> Append(sent, JSONstringify([type |-> "end_of_stream"]))]

\* ------------------------------------------------------------------ actions
\* No orchestration drives the session, and no HTTP response is handled.
NoOrch == [op |-> "none", pc |-> "none", result |-> Pending]
NoResponse == [response |-> NoValue, outcome |-> NoValue]

\* A session built directly on a socket does not come from a factory call.
NoFactory == [made |-> FALSE, promise |-> Pending, errors |-> 0]

\* new TTSStream(ws) / new STTStream(ws) on a socket; nothing received or sent.
Init ==
  /\ stream \in {NewStream(k) : k \in Kinds}
  /\ ws = [readyState |-> "OPEN", sent |-> <<>>]
  /\ inbound = [count |-> 0, faults |-> 0, first |-> NoValue, closed |-> NoValue]
  /\ readyCalls = <<>>
  /\ collectCalls = <<>>
  /\ iters = <<>>
  /\ lastSend = [op |-> "none", threw |-> NoValue, before |-> <<>>]
  /\ factory = NoFactory
  /\ orch = NoOrch
  /\ http = NoResponse

IsFault(e) ==
  \/ e.ev \in {"error", "close"}
  \/ e.ev = "message" /\ e.data \in FaultData("tts") \cup FaultData("stt")

\* The socket dispatches events once open and until its close event.
CanDispatch(maxEvents) ==
  ws.readyState # "CONNECTING" /\ inbound.closed = NoValue /\ inbound.count < maxEvents
CanFault(maxEvents) == CanDispatch(maxEvents) /\ inbound.faults < MaxFaults

Dispatched(log, e) ==
  [count  |-> log.count + 1,
   faults |-> IF IsFault(e) THEN log.faults + 1 ELSE log.faults,
   first  |-> IF log.count = 0 THEN e ELSE log.first,
   closed |-> IF e.ev = "close" THEN e.event ELSE log.closed]

\* What every handler run is followed by: the microtasks of the settled awaits.
Handled(s, e) ==
  /\ stream' = s
  /\ inbound' = Dispatched(inbound, e)
  /\ readyCalls' = FlushReady(readyCalls, s)
  /\ collectCalls' = FlushCollect(collectCalls, s)
  /\ UNCHANGED <<iters, lastSend, factory, orch, http>>

\* A message event carrying an envelope of the protocol.
OnMessage(maxEvents) ==
  /\ CanDispatch(maxEvents)
  /\ \E data \in ProtocolData(stream.kind) :
       Handled(onmessage(stream, data), [ev |-> "message", data |-> data])
  /\ UNCHANGED ws

\* A message event whose payload is not JSON, is null, has an unhandled tag
\* or carries audio that is not base64.
OnBadMessage(maxEvents) ==
  /\ CanFault(maxEvents)
  /\ \E data \in FaultData(stream.kind) :
       Handled(onmessage(stream, data), [ev |-> "message", data |-> data])
  /\ UNCHANGED ws

\* An error event of the socket.
OnError(maxEvents) ==
  /\ CanFault(maxEvents)
  /\ Handled(onerror(stream), [ev |-> "error"])
  /\ UNCHANGED ws

\* The close event of the socket; no event follows it.
OnClose(maxEvents) ==
  /\ CanFault(maxEvents)
  /\ \E event \in CloseEvents :
       Handled(onclose(stream, event), [ev |-> "close", event |-> event])
  /\ ws' = [ws EXCEPT !.readyState = "CLOSED"]

\* A caller invokes waitReady().
WaitReady(maxCalls) ==
  /\ Len(readyCalls) < maxCalls
  /\ readyCalls' = Append(readyCalls, waitReady(stream))
  /\ UNCHANGED <<stream, ws, inbound, collectCalls, iters, lastSend, factory, orch, http>>

\* A caller invokes collect() / collectText().
Collect(maxCalls) ==
  /\ Len(collectCalls) < maxCalls
  /\ collectCalls' = Append(collectCalls, collect(stream))
  /\ UNCHANGED <<stream, ws, inbound, readyCalls, iters, lastSend, factory, orch, http>>

\* A caller creates an iterator: stream[Symbol.asyncIterator](), iterText(),
\* iterVAD() or iter(); the body does not run before the first next().
IterCreate(maxIters) ==
  /\ Len(iters) < maxIters
  /\ \E sel \in Selectors(stream.kind) : iters' = Append(iters, NewIter(sel))
  /\ UNCHANGED <<stream, ws, inbound, readyCalls, collectCalls, lastSend, factory, orch, http>>

\* The consumer calls next() on an iterator that is not running.
IterNext ==
  /\ \E i \in DOMAIN iters :
       /\ iters[i].pc \in {"start", "yield"}
       /\ iters' = [iters EXCEPT ![i] = resume(@, stream)]
  /\ UNCHANGED <<stream, ws, inbound, readyCalls, collectCalls, lastSend, factory, orch, http>>

\* The 10 ms timer of a polling iterator fires.
IterWake ==
  /\ \E i \in DOMAIN iters :
       /\ iters[i].pc = "sleep"
       /\ iters' = [iters EXCEPT ![i] = runLoop(@, stream)]
  /\ UNCHANGED <<stream, ws, inbound, readyCalls, collectCalls, lastSend, factory, orch, http>>

\* Sessions consumed through waitReady and collect / collectText.
Next ==
  \/ OnMessage(MaxEvents)
  \/ OnBadMessage(MaxEvents)
  \/ OnError(MaxEvents)
  \/ OnClose(MaxEvents)
  \/ WaitReady(MaxCalls)
  \/ Collect(MaxCalls)

Spec == Init /\ [][Next]_vars

\* Sessions consumed through an iterator.
NextIter ==
  \/ OnMessage(MaxIterEvents)
  \/ OnBadMessage(MaxIterEvents)
  \/ OnError(MaxIterEvents)
  \/ OnClose(MaxIterEvents)
  \/ IterCreate(MaxIters)
  \/ IterNext
  \/ IterWake

SpecIter == Init /\ [][NextIter]_vars

\* Sessions shared by two iterating consumers, a waitReady caller and a
\* collect caller.
Consumers == {"first", "second"}

NextPair ==
  \/ OnMessage(MaxPairEvents)
  \/ OnBadMessage(MaxPairEvents)
  \/ OnError(MaxPairEvents)
  \/ OnClose(MaxPairEvents)
  \/ IterCreate(Cardinality(Consumers))
  \/ IterNext
  \/ IterWake
  \/ WaitReady(MaxPairCalls)
  \/ Collect(MaxPairCalls)

SpecPair == Init /\ [][NextPair]_vars

\* The outcome of a send call, with the sent log as it was before the call.
Sent(op, r) ==
  /\ ws' = [ws EXCEPT !.sent = r.sent]
  /\ lastSend' = [op |-> op, threw |-> r.threw, before |-> ws.sent]
  /\ UNCHANGED <<stream, inbound, readyCalls, collectCalls, iters, factory, orch, http>>

\* A caller invokes sendText(text) on a TTSStream.
SendText ==
  /\ stream.kind = "tts"
  /\ Len(ws.sent) < MaxSends
  /\ \E text \in Texts : Sent("sendText", sendText(stream, ws.sent, text))

\* A caller invokes sendAudio(audio) on an STTStream.
SendAudio ==
  /\ stream.kind = "stt"
  /\ Len(ws.sent) < MaxSends
  /\ \E audio \in AudioInputs : Sent("sendAudio", sendAudio(stream, ws.sent, audio))

\* A caller invokes sendEndOfStream().
SendEndOfStream ==
  /\ Len(ws.sent) < MaxSends
  /\ Sent("sendEndOfStream", sendEndOfStream(stream, ws.sent))

\* Sessions written to by the caller.
NextSend ==
  \/ OnMessage(MaxSendEvents)
  \/ OnBadMessage(MaxSendEvents)
  \/ OnError(MaxSendEvents)
  \/ OnClose(MaxSendEvents)
  \/ SendText
  \/ SendAudio
  \/ SendEndOfStream

SpecSend == Init /\ [][NextSend]_vars

\* A caller starts collect() / collectText() and, in the same turn, an
\* iterator over the subtype that collect aggregates.
CollectAndIterate(maxFolds) ==
  /\ Len(iters) < maxFolds
  /\ iters' = Append(iters, NewIter(IF stream.kind = "tts" THEN "audio" ELSE "text"))
  /\ collectCalls' = Append(collectCalls, collect(stream))
  /\ UNCHANGED <<stream, ws, inbound, readyCalls, lastSend, factory, orch, http>>

\* Sessions consumed by collect and by an iterator started together.
NextFold ==
  \/ OnMessage(MaxFoldEvents)
  \/ OnBadMessage(MaxFoldEvents)
  \/ OnError(MaxFoldEvents)
  \/ OnClose(MaxFoldEvents)
  \/ CollectAndIterate(MaxFolds)
  \/ IterNext
  \/ IterWake

SpecFold == Init /\ [][NextFold]_vars

\* Sessions iterated by a for await loop: the consumer calls next() as soon
\* as the previous item is delivered, and the 10 ms timer always fires.
NextLive ==
  \/ OnMessage(MaxLiveEvents)
  \/ OnBadMessage(MaxLiveEvents)
  \/ OnError(MaxLiveEvents)
  \/ OnClose(MaxLiveEvents)
  \/ IterCreate(MaxLiveIters)
  \/ IterNext
  \/ IterWake

SpecLive == Init /\ [][NextLive]_vars /\ WF_vars(IterNext) /\ WF_vars(IterWake)

\* ------------------------------------------------------------------ close()
\* Mutant of close: closing a socket that is already closed throws.
closeStrict(s, w) ==
  [threw  |-> IF w.readyState = "CLOSED" THEN TypeError ELSE NoValue,
   stream |-> s,
   ws     |-> [w EXCEPT !.readyState = "CLOSED"]]

\* Mutant of close: the pending waiters are rejected.
closeSettling(s, w) ==
  [threw  |-> NoValue,
   stream |-> [s EXCEPT !.readyPromise = Reject(@, ConnectionError("closed")),
                        !.endPromise = Reject(@, ConnectionError("closed"))],
   ws     |-> [w EXCEPT !.readyState = "CLOSED"]]

\* close(): this.ws.close(), which marks the socket closed; [threw, stream, ws]
\* is the exception raised, if any, and the session and socket after the call.
close(s, w) ==
  [threw  |-> NoValue,
   stream |-> s,
   ws     |-> [w EXCEPT !.readyState = "CLOSED"]]

\* A caller invokes close().
Close ==
  LET r == close(stream, ws)
  IN /\ stream' = r.stream
     /\ ws' = r.ws
     /\ lastSend' = [op |-> "close", threw |-> r.threw, before |-> ws.sent]
     /\ readyCalls' = FlushReady(readyCalls, r.stream)
     /\ collectCalls' = FlushCollect(collectCalls, r.stream)
     /\ UNCHANGED <<inbound, iters, factory, orch, http>>

\* Sessions the caller closes.
NextClose ==
  \/ OnMessage(MaxCloseEvents)
  \/ OnBadMessage(MaxCloseEvents)
  \/ OnError(MaxCloseEvents)
  \/ OnClose(MaxCloseEvents)
  \/ WaitReady(MaxCloseCalls)
  \/ Collect(MaxCloseCalls)
  \/ Close

SpecClose == Init /\ [][NextClose]_vars

\* Sessions the caller closes while waitReady, collect / collectText and a
\* for await loop are suspended on them.
NextCancel ==
  \/ OnMessage(MaxCancelEvents)
  \/ OnBadMessage(MaxCancelEvents)
  \/ OnError(MaxCancelEvents)
  \/ OnClose(MaxCancelEvents)
  \/ WaitReady(MaxCancelCalls)
  \/ Collect(MaxCancelCalls)
  \/ IterCreate(MaxCancelIters)
  \/ IterNext
  \/ IterWake
  \/ Close

SpecCancel == Init /\ [][NextCancel]_vars /\ WF_vars(IterNext) /\ WF_vars(IterWake)

\* Sessions the caller waits on, collects, iterates, writes to and closes.
NextSession ==
  \/ OnMessage(MaxSessionEvents)
  \/ OnBadMessage(MaxSessionEvents)
  \/ OnError(MaxSessionEvents)
  \/ OnClose(MaxSessionEvents)
  \/ WaitReady(MaxSessionCalls)
  \/ Collect(MaxSessionCalls)
  \/ IterCreate(MaxSessionIters)
  \/ IterNext
  \/ IterWake
  \/ SendText
  \/ SendAudio
  \/ SendEndOfStream
  \/ Close

SpecSession == Init /\ [][NextSession]_vars

\* A message event whose payload is not JSON.
OnGarbage ==
  /\ CanDispatch(MaxMalformedEvents)
  /\ inbound.faults < MaxMalformed
  /\ Handled(onmessage(stream, Garbage), [ev |-> "message", data |-> Garbage])
  /\ UNCHANGED ws

\* Sessions that receive payloads that are not JSON among the envelopes of
\* the protocol, while the caller waits, collects and writes.
NextMalformed ==
  \/ OnMessage(MaxMalformedEvents)
  \/ OnGarbage
  \/ WaitReady(MaxMalformedCalls)
  \/ Collect(MaxMalformedCalls)
  \/ SendText
  \/ SendAudio

SpecMalformed == Init /\ [][NextMalformed]_vars

\* ------------------------------------------------- TTS.stream / STT.stream
\* The setup parameters of a factory call: model_name and, for TTS,
\* json_config are optional ("" when left out).
Params(k) ==
  IF k = "tts"
  THEN { [voice_id |-> "v1", output_format |-> "pcm", model_name |-> m, json_config |-> c] :
           m \in {"", "custom"}, c \in {"", "{}"} }
  ELSE { [input_format |-> "pcm", model_name |-> m] : m \in {"", "custom"} }

\* The setup message written on open: model_name || "default", and
\* json_config only if given.
SetupMessage(k, params) ==
  LET model == IF params.model_name = "" THEN "default" ELSE params.model_name
  IN IF k = "stt"
     THEN [type |-> "setup", input_format |-> params.input_format, model_name |-> model]
     ELSE IF params.json_config = ""
     THEN [type |-> "setup", voice_id |-> params.voice_id,
           output_format |-> params.output_format, model_name |-> model]
     ELSE [type |-> "setup", voice_id |-> params.voice_id,
           output_format |-> params.output_format, model_name |-> model,
           json_config |-> params.json_config]

\* Mutant of streamOnopen: the session is handed out without the setup
\* message being sent.
streamOnopenNoSetup(k, sent, f) ==
  [sent    |-> sent,
   factory |-> [f EXCEPT !.promise = Resolve(@, [session |-> k])]]

\* ws.onopen of TTS.stream / STT.stream: send the setup message, then resolve
\* the factory's promise with the session.
streamOnopen(k, sent, f) ==
  [sent    |-> Append(sent, JSONstringify(SetupMessage(k, f.params))),
   factory |-> [f EXCEPT !.promise = Resolve(@, [session |-> k])]]

\* Mutant of streamOnerror: the factory's promise is left alone.
streamOnerrorSilent(k, f) == f

\* ws.onerror of TTS.stream / STT.stream: reject the factory's promise.
streamOnerror(k, f) ==
  [f EXCEPT !.promise = Reject(@, ConnectionError(
      IF k = "tts" THEN "Failed to connect to TTS WebSocket"
      ELSE "Failed to connect to STT WebSocket"))]

\* TTS.stream(params) / STT.stream(params) up to its return: the socket is
\* connecting, the session is constructed on it, and ws.onopen and ws.onerror
\* are the factory's.
InitFactory ==
  /\ stream \in {NewStream(k) : k \in Kinds}
  /\ ws = [readyState |-> "CONNECTING", sent |-> <<>>]
  /\ inbound = [count |-> 0, faults |-> 0, first |-> NoValue, closed |-> NoValue]
  /\ readyCalls = <<>>
  /\ collectCalls = <<>>
  /\ iters = <<>>
  /\ lastSend = [op |-> "none", threw |-> NoValue, before |-> <<>>]
  /\ \E params \in Params(stream.kind) :
       factory = [made |-> TRUE, promise |-> Pending, errors |-> 0, params |-> params]
  /\ orch = NoOrch
  /\ http = NoResponse

\* The open event of the socket; a socket whose connection failed never opens.
OnOpen ==
  /\ ws.readyState = "CONNECTING"
  /\ factory.errors = 0
  /\ LET r == streamOnopen(stream.kind, ws.sent, factory)
     IN /\ ws' = [readyState |-> "OPEN", sent |-> r.sent]
        /\ factory' = r.factory
  /\ UNCHANGED <<stream, inbound, readyCalls, collectCalls, iters, lastSend, orch, http>>

\* An error event of a socket made by the factory: ws.onerror is the handler
\* the factory assigned after the session's constructor had assigned its own.
OnErrorFactory(maxEvents) ==
  /\ inbound.closed = NoValue
  /\ inbound.count < maxEvents
  /\ inbound.faults < MaxFaults
  /\ factory' = [streamOnerror(stream.kind, factory) EXCEPT !.errors = @ + 1]
  /\ inbound' = Dispatched(inbound, [ev |-> "error"])
  /\ UNCHANGED <<stream, ws, readyCalls, collectCalls, iters, lastSend, orch, http>>

\* The caller writes to the session the factory returned.
CallerSends ==
  /\ factory.promise.state = "fulfilled"
  /\ (SendText \/ SendAudio \/ SendEndOfStream)

\* Sessions made by TTS.stream() / STT.stream().
NextFactory ==
  \/ OnOpen
  \/ OnErrorFactory(MaxFactoryEvents)
  \/ OnMessage(MaxFactoryEvents)
  \/ OnBadMessage(MaxFactoryEvents)
  \/ OnClose(MaxFactoryEvents)
  \/ WaitReady(MaxFactoryCalls)
  \/ Collect(MaxFactoryCalls)
  \/ CallerSends

SpecFactory == InitFactory /\ [][NextFactory]_vars

\* ------------------------------------------- TTS.create / STT.transcribe
\* The outcome of an async function that has thrown, or not settled yet.
Running(o, pc) == [o EXCEPT !.pc = pc]
Threw(o, e) == [o EXCEPT !.pc = "done", !.result = [state |-> "rejected", value |-> e]]
Returned(o, p) == [o EXCEPT !.pc = "done", !.result = p]

\* The promise the call is suspended on, if any.
Awaited(o, f, s) ==
  CASE o.pc = "stream"    -> f.promise
    [] o.pc = "waitReady" -> s.readyPromise
    [] o.pc = "collect"   -> s.endPromise
    [] OTHER              -> Pending

\* Mutant of create: sendEndOfStream() is left out.
createNoEnd(o, f, s, sent) ==
  LET p == Awaited(o, f, s)
  IN IF p.state = "rejected" THEN [orch |-> Threw(o, p.value), sent |-> sent]
     ELSE CASE o.pc = "stream" -> [orch |-> Running(o, "waitReady"), sent |-> sent]
            [] o.pc = "waitReady" ->
                 LET text == sendText(s, sent, o.input)
                 IN IF text.threw # NoValue
                    THEN [orch |-> Threw(o, text.threw), sent |-> text.sent]
                    ELSE [orch |-> Running(o, "collect"), sent |-> text.sent]
            [] o.pc = "collect" -> [orch |-> Returned(o, collect(s)), sent |-> sent]

\* TTS.create from one await to the next; [orch, sent] is the call and the
\* socket's sent log afterwards.
\*   const stream = await this.stream(params);
\*   await stream.waitReady();
\*   stream.sendText(params.text); stream.sendEndOfStream();
\*   return stream.collect();
create(o, f, s, sent) ==
  LET p == Awaited(o, f, s)
  IN IF p.state = "rejected" THEN [orch |-> Threw(o, p.value), sent |-> sent]
     ELSE CASE o.pc = "stream" -> [orch |-> Running(o, "waitReady"), sent |-> sent]
            [] o.pc = "waitReady" ->
                 LET text == sendText(s, sent, o.input)
                     end  == sendEndOfStream(s, text.sent)
                 IN IF text.threw # NoValue
                    THEN [orch |-> Threw(o, text.threw), sent |-> text.sent]
                    ELSE [orch |-> Running(o, "collect"), sent |-> end.sent]
            [] o.pc = "collect" -> [orch |-> Returned(o, collect(s)), sent |-> sent]

\* const chunkSize = 1920 * 2
TranscribeChunkSize == 3840

\* Mutant of sendChunks: the audio is sent as one chunk.
sendChunksWhole(s, sent, audio, i) ==
  IF Len(audio) = 0 THEN [threw |-> NoValue, sent |-> sent]
  ELSE sendAudio(s, sent, audio)

\* for (let i = 0; i < audio.length; i += chunkSize)
\*   stream.sendAudio(audio.slice(i, Math.min(i + chunkSize, audio.length)))
RECURSIVE sendChunks(_, _, _, _)
sendChunks(s, sent, audio, i) ==
  IF i >= Len(audio) THEN [threw |-> NoValue, sent |-> sent]
  ELSE LET to    == IF i + TranscribeChunkSize < Len(audio)
                    THEN i + TranscribeChunkSize ELSE Len(audio)
           chunk == SubSeq(audio, i + 1, to)
           r     == sendAudio(s, sent, chunk)
       IN IF r.threw # NoValue THEN r
          ELSE sendChunks(s, r.sent, audio, i + TranscribeChunkSize)

\* Mutant of transcribe: a failure is wrapped in a new error.
transcribeWrapping(o, f, s, sent) ==
  LET p == Awaited(o, f, s)
  IN IF p.state = "rejected"
     THEN [orch |-> Threw(o, [name |-> "GradiumError", message |-> "Transcription failed",
                              code |-> NoCode]),
           sent |-> sent]
     ELSE CASE o.pc = "stream" -> [orch |-> Running(o, "waitReady"), sent |-> sent]
            [] o.pc = "waitReady" ->
                 LET chunks == sendChunks(s, sent, o.input, 0)
                     end    == sendEndOfStream(s, chunks.sent)
                 IN IF chunks.threw # NoValue
                    THEN [orch |-> Threw(o, chunks.threw), sent |-> chunks.sent]
                    ELSE [orch |-> Running(o, "collect"), sent |-> end.sent]
            [] o.pc = "collect" -> [orch |-> Returned(o, collect(s)), sent |-> sent]

\* STT.transcribe from one await to the next.
transcribe(o, f, s, sent) ==
  LET p == Awaited(o, f, s)
  IN IF p.state = "rejected" THEN [orch |-> Threw(o, p.value), sent |-> sent]
     ELSE CASE o.pc = "stream" -> [orch |-> Running(o, "waitReady"), sent |-> sent]
            [] o.pc = "waitReady" ->
                 LET chunks == sendChunks(s, sent, o.input, 0)
                     end    == sendEndOfStream(s, chunks.sent)
                 IN IF chunks.threw # NoValue
                    THEN [orch |-> Threw(o, chunks.threw), sent |-> chunks.sent]
                    ELSE [orch |-> Running(o, "collect"), sent |-> end.sent]
            [] o.pc = "collect" -> [orch |-> Returned(o, collect(s)), sent |-> sent]

\* The audio passed to transcribe: n bytes, for lengths around the chunk size.
AudioOfLength(n) == [i \in 1..n |-> (i * 7) % 256]
TranscribeLengths ==
  {0, 1, TranscribeChunkSize, TranscribeChunkSize + 1, 2 * TranscribeChunkSize + 1}

\* client.tts.create({...params, text}) / client.stt.transcribe(params, audio)
\* up to the first await: the factory's socket is connecting.
InitOneShot ==
  /\ stream \in {NewStream(k) : k \in Kinds}
  /\ ws = [readyState |-> "CONNECTING", sent |-> <<>>]
  /\ inbound = [count |-> 0, faults |-> 0, first |-> NoValue, closed |-> NoValue]
  /\ readyCalls = <<>>
  /\ collectCalls = <<>>
  /\ iters = <<>>
  /\ lastSend = [op |-> "none", threw |-> NoValue, before |-> <<>>]
  /\ \E params \in Params(stream.kind) :
       factory = [made |-> TRUE, promise |-> Pending, errors |-> 0, params |-> params]
  /\ IF stream.kind = "tts"
     THEN \E text \in Texts :
            orch = [op |-> "create", pc |-> "stream", input |-> text, result |-> Pending]
     ELSE \E n \in TranscribeLengths :
            orch = [op |-> "transcribe", pc |-> "stream", input |-> AudioOfLength(n),
                    result |-> Pending]
  /\ http = NoResponse

\* The continuation of the await the call is suspended on can run.
Runnable == Awaited(orch, factory, stream).state # "pending"

\* The call runs from the await that has settled to its next await or its end.
OneShotStep ==
  /\ Runnable
  /\ LET r == IF orch.op = "create" THEN create(orch, factory, stream, ws.sent)
              ELSE transcribe(orch, factory, stream, ws.sent)
     IN /\ orch' = r.orch
        /\ ws' = [ws EXCEPT !.sent = r.sent]
  /\ UNCHANGED <<stream, inbound, readyCalls, collectCalls, iters, lastSend, factory, http>>

\* The socket's events; the continuations of a settled await run before the
\* next event is dispatched.
Channel(maxEvents) ==
  /\ ~Runnable
  /\ \/ OnOpen
     \/ OnErrorFactory(maxEvents)
     \/ OnMessage(maxEvents)
     \/ OnBadMessage(maxEvents)
     \/ OnClose(maxEvents)

\* Sessions driven by TTS.create / STT.transcribe.
NextOneShot ==
  \/ Channel(MaxOneShotEvents)
  \/ OneShotStep

SpecOneShot == InitOneShot /\ [][NextOneShot]_vars

\* ----------------------------------------- TTS.streamText / STT.streamAudio
\* What the generators produce.
FeedItems(k) == IF k = "tts" THEN {<<"H", "i">>, <<"y", "o">>} ELSE AudioInputs

\* streamText / streamAudio up to its return: the two awaits, then the
\* feeding task is started and the session is returned.
\*   const stream = await this.stream(params);
\*   await stream.waitReady();
\*   (async () => { ... })();
\*   return stream;
streamFed(o, f, s) ==
  LET p == Awaited(o, f, s)
  IN IF p.state = "rejected" THEN Threw(o, p.value)
     ELSE CASE o.pc = "stream"    -> Running(o, "waitReady")
            [] o.pc = "waitReady" ->
                 [o EXCEPT !.pc = "feeding", !.result = [state |-> "fulfilled", value |-> [session |-> s.kind]]]

\* Mutant of feedItem: the item is written twice.
feedItemTwice(o, s, sent, item) ==
  LET r == IF s.kind = "tts" THEN sendText(s, sent, item) ELSE sendAudio(s, sent, item)
      t == IF s.kind = "tts" THEN sendText(s, r.sent, item) ELSE sendAudio(s, r.sent, item)
  IN IF r.threw # NoValue
     THEN [orch |-> [o EXCEPT !.pc = "aborted"], sent |-> r.sent]
     ELSE [orch |-> [o EXCEPT !.input = Append(@, item)], sent |-> t.sent]

\* The body of the feeding loop for one item the generator has produced:
\*   for await (const text of textGenerator) stream.sendText(text)
\* An exception ends the feeding task; nothing awaits its promise.
feedItem(o, s, sent, item) ==
  LET r == IF s.kind = "tts" THEN sendText(s, sent, item) ELSE sendAudio(s, sent, item)
  IN IF r.threw # NoValue
     THEN [orch |-> [o EXCEPT !.pc = "aborted"], sent |-> r.sent]
     ELSE [orch |-> [o EXCEPT !.input = Append(@, item)], sent |-> r.sent]

\* The generator is exhausted: stream.sendEndOfStream() and the task ends.
feedEnd(o, s, sent) ==
  [orch |-> [o EXCEPT !.pc = "fed"], sent |-> sendEndOfStream(s, sent).sent]

\* Mutant of feedAbort: the task signals the end of the input and fails the
\* session.
feedAbortEnding(o, s, sent) ==
  [orch   |-> [o EXCEPT !.pc = "aborted"],
   stream |-> [s EXCEPT !.endPromise = Reject(@, TypeError)],
   sent   |-> sendEndOfStream(s, sent).sent]

\* The generator has thrown: the exception leaves the for await loop and the
\* async function, sendEndOfStream() is not reached, and the promise of the
\* task, which nothing holds, is rejected.
feedAbort(o, s, sent) ==
  [orch |-> [o EXCEPT !.pc = "aborted"], stream |-> s, sent |-> sent]

\* client.tts.streamText(params, generator) / client.stt.streamAudio(params,
\* generator) up to the first await; input is what the generator has produced.
InitFeed ==
  /\ stream \in {NewStream(k) : k \in Kinds}
  /\ ws = [readyState |-> "CONNECTING", sent |-> <<>>]
  /\ inbound = [count |-> 0, faults |-> 0, first |-> NoValue, closed |-> NoValue]
  /\ readyCalls = <<>>
  /\ collectCalls = <<>>
  /\ iters = <<>>
  /\ lastSend = [op |-> "none", threw |-> NoValue, before |-> <<>>]
  /\ \E params \in Params(stream.kind) :
       factory = [made |-> TRUE, promise |-> Pending, errors |-> 0, params |-> params]
  /\ orch = [op     |-> IF stream.kind = "tts" THEN "streamText" ELSE "streamAudio",
             pc     |-> "stream",
             input  |-> <<>>,
             result |-> Pending]
  /\ http = NoResponse

\* The call runs from the await that has settled to its next await or return.
FeedStep ==
  /\ Runnable
  /\ orch' = streamFed(orch, factory, stream)
  /\ UNCHANGED <<stream, ws, inbound, readyCalls, collectCalls, iters, lastSend, factory, http>>

\* The generator yields an item and the feeding task sends it.
GenYield ==
  /\ orch.pc = "feeding"
  /\ Len(orch.input) < MaxFeedItems
  /\ \E item \in FeedItems(stream.kind) :
       LET r == feedItem(orch, stream, ws.sent, item)
       IN /\ orch' = r.orch
          /\ ws' = [ws EXCEPT !.sent = r.sent]
  /\ UNCHANGED <<stream, inbound, readyCalls, collectCalls, iters, lastSend, factory, http>>

\* The generator returns.
GenDone ==
  /\ orch.pc = "feeding"
  /\ LET r == feedEnd(orch, stream, ws.sent)
     IN /\ orch' = r.orch
        /\ ws' = [ws EXCEPT !.sent = r.sent]
  /\ UNCHANGED <<stream, inbound, readyCalls, collectCalls, iters, lastSend, factory, http>>

\* The generator throws: the for await loop rethrows out of the feeding task.
GenThrow ==
  /\ orch.pc = "feeding"
  /\ LET r == feedAbort(orch, stream, ws.sent)
     IN /\ orch' = r.orch
        /\ stream' = r.stream
        /\ ws' = [ws EXCEPT !.sent = r.sent]
        /\ readyCalls' = FlushReady(readyCalls, r.stream)
        /\ collectCalls' = FlushCollect(collectCalls, r.stream)
  /\ UNCHANGED <<inbound, iters, lastSend, factory, http>>

\* The caller iterates over the session streamText / streamAudio returned.
CallerIterates ==
  /\ orch.result.state = "fulfilled"
  /\ (IterCreate(MaxFeedIters) \/ IterNext \/ IterWake)

\* Sessions fed from a generator while the caller iterates.
NextFeed ==
  \/ Channel(MaxFeedEvents)
  \/ FeedStep
  \/ GenYield
  \/ GenDone
  \/ GenThrow
  \/ CallerIterates

SpecFeed == InitFeed /\ [][NextFeed]_vars

\* ------------------------------------------------------- binary payloads
MaxPayloadLen == 3
MaxPayloadEvents == 2
MaxPayloadSends == 2

\* Byte values at the ends and in the middle of the range, and the byte
\* sequences of up to MaxPayloadLen of them.
PayloadBytes == {0, 1, 127, 128, 255}
ByteSeqs == UNION {[1..n -> PayloadBytes] : n \in 0..MaxPayloadLen}

\* A session on an open socket and the byte sequence that is going to be the
\* payload: of sendAudio(audio) on an STTStream, of an inbound audio message
\* on a TTSStream.
InitPayload ==
  /\ stream \in {NewStream(k) : k \in Kinds}
  /\ ws = [readyState |-> "OPEN", sent |-> <<>>]
  /\ inbound = [count |-> 0, faults |-> 0, first |-> NoValue, closed |-> NoValue]
  /\ readyCalls = <<>>
  /\ collectCalls = <<>>
  /\ iters = <<>>
  /\ lastSend = [op |-> "none", threw |-> NoValue, before |-> <<>>]
  /\ factory = NoFactory
  /\ \E b \in ByteSeqs : orch = [op |-> "payload", pc |-> "none", input |-> b, result |-> Pending]
  /\ http = NoResponse

\* The remote sends the ready message.
ReceiveReady ==
  /\ CanDispatch(MaxPayloadEvents)
  /\ \E m \in ReadyMsgs(stream.kind) :
       Handled(onmessage(stream, Json(m)), [ev |-> "message", data |-> Json(m)])
  /\ UNCHANGED ws

\* The caller invokes sendAudio with the byte sequence.
SendPayload ==
  /\ stream.kind = "stt"
  /\ Len(ws.sent) < MaxPayloadSends
  /\ Sent("sendAudio", sendAudio(stream, ws.sent, orch.input))

\* The remote sends an audio message carrying the base64 of the byte sequence.
ReceivePayload ==
  /\ stream.kind = "tts"
  /\ CanDispatch(MaxPayloadEvents)
  /\ LET data == Json(AudioMsg(btoa(orch.input)))
     IN Handled(onmessage(stream, data), [ev |-> "message", data |-> data])
  /\ UNCHANGED ws

NextPayload ==
  \/ ReceiveReady
  \/ SendPayload
  \/ ReceivePayload

SpecPayload == InitPayload /\ [][NextPayload]_vars

\* ------------------------------------------------------------ HTTP errors
\* Error classes of the REST client.
AuthenticationError(message) == [name |-> "AuthenticationError", message |-> message]
ValidationError(errors, message) ==
  [name |-> "ValidationError", status |-> 422, message |-> message, errors |-> errors]
APIError(status, message, body) ==
  [name |-> "APIError", status |-> status, message |-> message, body |-> body]
NotFoundError(message) ==
  [name |-> "NotFoundError", status |-> 404, message |-> message, body |-> Undefined]
RateLimitError(message, retryAfter) ==
  [name |-> "RateLimitError", status |-> 429, message |-> message, body |-> Undefined,
   retryAfter |-> retryAfter]
InternalServerError(status, message) ==
  [name |-> "InternalServerError", status |-> status, message |-> message, body |-> Undefined]
\* errors.map / e.loc.join applied to a value that has no such method.
NotAFunction == [name |-> "TypeError", message |-> "is not a function"]

\* Values of a response body after response.json(), or response.text(), or
\* null when neither can be read.
TextBody == [kind |-> "string", text |-> "Bad Gateway"]
NullBody == [kind |-> "null"]
ObjectBody(hasDetail, detail) == [kind |-> "object", hasDetail |-> hasDetail, detail |-> detail]
DetailString == [kind |-> "string", text |-> "Not allowed"]
DetailList ==
  [kind  |-> "array",
   items |-> << [loc |-> <<"body", "voice_id">>, msg |-> "field required", type |-> "missing"],
                [loc |-> <<"query", 0>>, msg |-> "too long", type |-> "length"] >>]
DetailMalformed == [kind |-> "array", items |-> << [msg |-> "field required"] >>]

\* The responses handed to handleAPIError: a status outside 2xx, a body that
\* is JSON or not, a retry-after header or none.
Statuses == {302, 400, 401, 403, 404, 418, 422, 429, 499, 500, 503}
JsonBodies ==
  { NullBody, TextBody, ObjectBody(FALSE, Undefined), ObjectBody(TRUE, DetailString),
    ObjectBody(TRUE, DetailList), ObjectBody(TRUE, DetailMalformed) }
RetryAfterHeaders == {"", "60", "abc"}
Responses ==
  [status : Statuses, json : BOOLEAN, body : JsonBodies, retryAfter : RetryAfterHeaders]

\* try { body = await response.json() } catch { body = await
\* response.text().catch(() => null) }: a body that is not JSON is read as
\* text, or is null when the body can no longer be read.
ReadBody(response) ==
  IF response.json THEN {response.body} ELSE {TextBody, NullBody}

\* typeof body === "object" && body && "detail" in body
HasDetail(body) == body.kind = "object" /\ body.hasDetail

\* String(detail)
StringOf(detail) ==
  IF detail.kind = "string" THEN detail.text ELSE "[object Object]"

\* ValidationError.formatErrors(errors): "loc.joined: msg" of every error;
\* [threw, value] is the exception raised, if any, and the message.
formatErrors(errors) ==
  IF errors.kind # "array" THEN [threw |-> NotAFunction, value |-> <<>>]
  ELSE IF \E i \in DOMAIN errors.items : "loc" \notin DOMAIN errors.items[i]
  THEN [threw |-> NotAFunction, value |-> <<>>]
  ELSE [threw |-> NoValue,
        value |-> [i \in DOMAIN errors.items |->
                     [path |-> errors.items[i].loc, msg |-> errors.items[i].msg]]]

\* new ValidationError(detail): the constructor formats the errors first.
NewValidationError(detail) ==
  LET formatted == formatErrors(detail)
  IN IF formatted.threw # NoValue THEN formatted.threw
     ELSE ValidationError(detail.items, formatted.value)

\* Number.parseInt(header, 10) of the headers used here.
ParseInt(header) ==
  CASE header = "60" -> [number |-> 60]
    [] OTHER         -> [number |-> "NaN"]

\* The message of every branch but the first: the detail, or the default.
MessageOf(body, default) ==
  IF HasDetail(body) THEN StringOf(body.detail) ELSE default

\* handleAPIError(response) with the body already read: the error thrown.
handleAPIError(status, body, retryAfter) ==
  IF status = 422 /\ body.kind = "object" /\ body.hasDetail
  THEN NewValidationError(body.detail)
  ELSE IF status = 401 \/ status = 403
  THEN AuthenticationError(MessageOf(body, "Authentication failed"))
  ELSE IF status = 404
  THEN NotFoundError(MessageOf(body, "Resource not found"))
  ELSE IF status = 429
  THEN RateLimitError(MessageOf(body, "Rate limit exceeded"),
                      IF retryAfter # "" THEN ParseInt(retryAfter) ELSE Undefined)
  ELSE IF status >= 500
  THEN InternalServerError(status, MessageOf(body, <<"Server error", status>>))
  ELSE APIError(status, MessageOf(body, <<"API error", status>>), body)

\* A response that is not ok has come back from fetch; no session is involved.
InitHTTP ==
  /\ stream = NewStream("tts")
  /\ ws = [readyState |-> "CLOSED", sent |-> <<>>]
  /\ inbound = [count |-> 0, faults |-> 0, first |-> NoValue, closed |-> NoValue]
  /\ readyCalls = <<>>
  /\ collectCalls = <<>>
  /\ iters = <<>>
  /\ lastSend = [op |-> "none", threw |-> NoValue, before |-> <<>>]
  /\ factory = NoFactory
  /\ orch = NoOrch
  /\ \E response \in Responses : http = [response |-> response, outcome |-> NoValue]

\* The client calls handleAPIError(response); it throws.
HandleAPIError ==
  /\ http.outcome = NoValue
  /\ \E body \in ReadBody(http.response) :
       http' = [http EXCEPT !.outcome =
                  [threw |-> handleAPIError(http.response.status, body,
                                            http.response.retryAfter),
                   body  |-> body]]
  /\ UNCHANGED <<stream, ws, inbound, readyCalls, collectCalls, iters, lastSend, factory, orch>>

NextHTTP == HandleAPIError

SpecHTTP == InitHTTP /\ [][NextHTTP]_vars

\* ------------------------------------------------- what has been received
IsType(m, t) == ~IsNull(m) /\ m.type = t
Received(q, t) == \E i \in DOMAIN q : IsType(q[i], t)
\* Index of the first / last message of type t in q (0 when there is none).
FirstOf(q, t) ==
  IF Received(q, t) THEN CHOOSE i \in DOMAIN q :
       IsType(q[i], t) /\ \A j \in 1..(i - 1) : ~IsType(q[j], t)
  ELSE 0
LastOf(q, t) ==
  IF Received(q, t) THEN CHOOSE i \in DOMAIN q :
       IsType(q[i], t) /\ \A j \in (i + 1)..Len(q) : ~IsType(q[j], t)
  ELSE 0

\* The bytes carried by the audio envelopes of q whose payload is base64.
RECURSIVE DecodedAudio(_)
DecodedAudio(q) ==
  IF q = <<>> THEN <<>>
  ELSE IF IsType(Head(q), "audio") /\ atob(Head(q).audio).ok
       THEN atob(Head(q).audio).bytes \o DecodedAudio(Tail(q))
       ELSE DecodedAudio(Tail(q))

\* The text fields of the text envelopes of q.
RECURSIVE TextsOf(_)
TextsOf(q) ==
  IF q = <<>> THEN <<>>
  ELSE IF IsType(Head(q), "text") THEN <<Head(q).text>> \o TextsOf(Tail(q))
       ELSE TextsOf(Tail(q))

\* r is the fragments in order with exactly one space between neighbours.
RECURSIVE IsSpaceJoined(_, _)
IsSpaceJoined(r, frags) ==
  IF frags = <<>> THEN r = <<>>
  ELSE IF Len(frags) = 1 THEN r = frags[1]
  ELSE LET n == Len(frags[1])
       IN /\ Len(r) > n
          /\ SubSeq(r, 1, n) = frags[1]
          /\ r[n + 1] = " "
          /\ IsSpaceJoined(SubSeq(r, n + 2, Len(r)), Tail(frags))

IsPrefix(a, b) == Len(a) <= Len(b) /\ SubSeq(b, 1, Len(a)) = a

Fulfilled(v) == [state |-> "fulfilled", value |-> v]
Rejected(e) == [state |-> "rejected", value |-> e]
\* The outcome a call has observed is the expected one.
Is(outcome, expected) == outcome.state = expected.state /\ outcome.value = expected.value

\* Call i of a list of calls is settled by this step: it was pending, or it
\* is made in this step.
SettledNow(before, after, i) ==
  /\ i \in DOMAIN after
  /\ after[i].state # "pending"
  /\ (i \in DOMAIN before => before[i].state = "pending")

\* ------------------------------------------------------------------ claims

\* C1: while no ready envelope has been received, sendText and sendAudio
\* throw WebSocketError("Stream is not ready. Call waitReady() first.") and
\* leave the socket's sent log as it was.
C1_SendBeforeReadyFails ==
  (lastSend.op \in {"sendText", "sendAudio"} /\ ~Received(stream.messageQueue, "ready"))
    => (lastSend.threw = NotReadyError /\ ws.sent = lastSend.before)

C1_Witness ==
  /\ lastSend.op \in {"sendText", "sendAudio"}
  /\ lastSend.threw = NotReadyError
  /\ ~Received(stream.messageQueue, "ready")
  /\ inbound.count > 0
  /\ Len(ws.sent) > 0

\* The first event dispatched is a message event carrying an error envelope.
FirstIsError ==
  /\ inbound.count > 0
  /\ inbound.first.ev = "message"
  /\ inbound.first.data.wellFormed
  /\ IsType(inbound.first.data.value, "error")
FirstError == inbound.first.data.value

\* C2: when an error envelope is the first inbound event, every waitReady()
\* and every collect() / collectText(), called before it arrived or at any
\* time after, is rejected with the WebSocketError of its message and code.
C2_ErrorFirstRejectsBoth ==
  FirstIsError =>
    LET failure == Rejected(WebSocketError(FirstError.message, FirstError.code))
    IN /\ \A i \in DOMAIN readyCalls : Is(readyCalls[i], failure)
       /\ \A i \in DOMAIN collectCalls : Is(collectCalls[i], failure)

C2_Witness ==
  /\ FirstIsError
  /\ inbound.count = MaxEvents
  /\ Received(stream.messageQueue, "ready")
  /\ Received(stream.messageQueue, "end_of_stream")
  /\ Len(readyCalls) = 2
  /\ Len(collectCalls) = 2

\* The failure of some error envelope of q.
CarriesError(q, outcome) ==
  \E i \in DOMAIN q :
    /\ IsType(q[i], "error")
    /\ Is(outcome, Rejected(WebSocketError(q[i].message, q[i].code)))

\* C3: once an error envelope has been observed, every waitReady() and
\* collect() / collectText() call that is outstanding or made later is
\* rejected with the message and code of an error envelope, whether the
\* error came before or after ready.
C3_ErrorRejectsEveryLaterCall ==
  [][ Received(stream'.messageQueue, "error") =>
        /\ \A i \in DOMAIN readyCalls' :
             SettledNow(readyCalls, readyCalls', i)
               => CarriesError(stream'.messageQueue, readyCalls'[i])
        /\ \A i \in DOMAIN collectCalls' :
             SettledNow(collectCalls, collectCalls', i)
               => CarriesError(stream'.messageQueue, collectCalls'[i]) ]_vars

\* What waitReady() resolves with for a ready envelope: the envelope itself
\* on an STTStream, nothing on a TTSStream.
ReadyInfo(k, m) == IF k = "tts" THEN Undefined ELSE m

C5_CollectConcatenatesAudio ==
  [][ stream.kind = "tts" =>
        \A i \in DOMAIN collectCalls' :
          (SettledNow(collectCalls, collectCalls', i) /\ collectCalls'[i].state = "fulfilled")
            => LET q == stream'.messageQueue
                   r == collectCalls'[i].value
               IN /\ r.raw_data = DecodedAudio(q)
                  /\ r.sample_rate = TTSSampleRate
                  /\ Received(q, "ready") => r.request_id = q[LastOf(q, "ready")].request_id
    ]_vars

C5_Witness ==
  /\ stream.kind = "tts"
  /\ stream.messageQueue =
       << ReadyTTS("req-1"), AudioMsg(btoa(ChunkB)), AudioMsg(btoa(ChunkA)), EndOfStream >>
  /\ Len(collectCalls) = 2
  /\ \A i \in DOMAIN collectCalls :
       Is(collectCalls[i], Fulfilled([raw_data |-> ChunkB \o ChunkA,
                                      sample_rate |-> TTSSampleRate,
                                      request_id |-> "req-1"]))

\* The data carried by an aggregate, and by the envelopes of a queue.
DataOf(k, value) == IF k = "tts" THEN value.raw_data ELSE value
DataIn(k, q) ==
  IF k = "tts" THEN DecodedAudio(q)
  ELSE JoinTexts([i \in DOMAIN TextsOf(q) |-> [text |-> TextsOf(q)[i]]])

\* C6: collect() / collectText() has returned a result only if an
\* end_of_stream envelope has been received, and the result holds every data
\* message received up to that envelope.
C6_CollectOnlyAfterEndOfStream ==
  \A i \in DOMAIN collectCalls :
    collectCalls[i].state = "fulfilled" =>
      LET q == stream.messageQueue
      IN /\ Received(q, "end_of_stream")
         /\ IsPrefix(DataIn(stream.kind, SubSeq(q, 1, FirstOf(q, "end_of_stream"))),
                     DataOf(stream.kind, collectCalls[i].value))

C6_Witness ==
  /\ Len(collectCalls) = 2
  /\ collectCalls[1].state = "fulfilled"
  /\ collectCalls[2].state = "fulfilled"
  /\ collectCalls[1] # collectCalls[2]
  /\ Len(DataOf(stream.kind, collectCalls[1].value)) > 0

\* C7: at the moment an STTStream's collectText() resolves, its result is
\* the text fields of the text envelopes received, in arrival order, with
\* exactly one space between neighbours; the empty string when there is none.
C7_CollectTextJoinsWithSpaces ==
  [][ stream.kind = "stt" =>
        \A i \in DOMAIN collectCalls' :
          (SettledNow(collectCalls, collectCalls', i) /\ collectCalls'[i].state = "fulfilled")
            => IsSpaceJoined(collectCalls'[i].value, TextsOf(stream'.messageQueue))
    ]_vars

C7_Witness ==
  /\ stream.kind = "stt"
  /\ Len(collectCalls) = 2
  /\ Is(collectCalls[1], Fulfilled(<<"y", "o", " ", "H", "i">>))
  /\ Is(collectCalls[2], Fulfilled(<<"y", "o", " ", "H", "i", " ", "H", "i">>))

\* The items of one subtype among the envelopes of q, as an iterator over
\* that subtype yields them: decoded chunks, text results, VAD steps.
RECURSIVE ItemsOf(_, _)
ItemsOf(sel, q) ==
  IF q = <<>> THEN <<>>
  ELSE LET m == Head(q)
           item == CASE sel = "audio" /\ IsType(m, "audio") /\ atob(m.audio).ok
                          -> <<atob(m.audio).bytes>>
                     [] sel = "text" /\ IsType(m, "text") -> <<m>>
                     [] sel = "vad" /\ IsType(m, "step") -> <<m>>
                     [] sel = "all" /\ ~IsType(m, "ready") -> <<m>>
                     [] OTHER -> <<>>
       IN item \o ItemsOf(sel, Tail(q))

\* Iterator i finishes normally in this step.
CompletesNow(i) ==
  /\ i \in DOMAIN iters'
  /\ iters'[i].pc = "done"
  /\ (i \in DOMAIN iters => iters[i].pc # "done")

Consumed(it) == IF it.pc = "yield" THEN it.processedIndex + 1 ELSE it.processedIndex

\* C9: every iterator reads through its own cursor: what it has yielded is
\* the in-order history of its buffer up to that cursor, complete when it
\* finishes, whenever it was started; and a step of an iterator, of
\* waitReady() or of collect() leaves the stream's buffers and fields, the
\* other iterators and the outcomes other calls have observed as they were.
C9_ConsumersDoNotInterfere ==
  [][ /\ \A i \in DOMAIN iters' :
           LET buf == Buffer(stream', iters'[i].sel)
           IN /\ Consumed(iters'[i]) <= Len(buf)
              /\ iters'[i].yielded =
                   IF iters'[i].sel = "all"
                   THEN ItemsOf("all", SubSeq(buf, 1, Consumed(iters'[i])))
                   ELSE SubSeq(buf, 1, Consumed(iters'[i]))
              /\ CompletesNow(i) => Consumed(iters'[i]) = Len(buf)
      /\ inbound' = inbound =>
           /\ stream' = stream
           /\ Is(collect(stream'), collect(stream))
           /\ Cardinality({i \in DOMAIN iters : iters'[i] # iters[i]}) <= 1
           /\ \A i \in DOMAIN readyCalls : Is(readyCalls'[i], readyCalls[i])
           /\ \A i \in DOMAIN collectCalls : Is(collectCalls'[i], collectCalls[i])
    ]_vars

C9_Witness ==
  /\ Len(iters) = 2
  /\ iters[1].sel = iters[2].sel
  /\ iters[1].pc = "done"
  /\ iters[2].pc = "done"
  /\ Len(iters[1].yielded) > 0
  /\ iters[1].yielded = iters[2].yielded
  /\ Len(readyCalls) = 1
  /\ Len(collectCalls) = 1
  /\ collectCalls[1].state = "fulfilled"

\* C10: on a session whose terminal state is Failed (an error envelope came
\* before any end_of_stream) no iterator completes normally.
C10_FailedSessionIteratorRaises ==
  \A i \in DOMAIN iters :
    LET q == stream.messageQueue
    IN ( /\ Received(q, "error")
         /\ (Received(q, "end_of_stream") => FirstOf(q, "error") < FirstOf(q, "end_of_stream")) )
         => iters[i].pc # "done"

\* What collect() / collectText() would make of the items an iterator yielded.
Fold(k, items) == IF k = "tts" THEN ConcatChunks(items) ELSE JoinTexts(items)

\* C11: collect() / collectText() and an iterator of the same subtype started
\* at the same moment agree: collect is never rejected when the iterator
\* completes normally, never fulfilled when the iterator throws, and when
\* both have finished the aggregate is the fold of the items yielded.
C11_CollectIsIteratorFold ==
  \A i \in DOMAIN iters :
    /\ iters[i].pc = "done" => collectCalls[i].state # "rejected"
    /\ iters[i].pc = "threw" => collectCalls[i].state # "fulfilled"
    /\ (iters[i].pc = "done" /\ collectCalls[i].state = "fulfilled")
         => DataOf(stream.kind, collectCalls[i].value) = Fold(stream.kind, iters[i].yielded)

\* The phase of the session: Active from the ready envelope until an
\* end_of_stream envelope or a failure.
Terminal(s) ==
  \/ Received(s.messageQueue, "end_of_stream")
  \/ Received(s.messageQueue, "error")
  \/ s.readyPromise.state = "rejected"
  \/ s.endPromise.state # "pending"
Active(s) == Received(s.messageQueue, "ready") /\ ~Terminal(s)

\* C12: a sendText / sendAudio call made while the session is not Active,
\* before ready as well as after an error envelope or end_of_stream, throws
\* the not-ready error and writes nothing.
C12_SendOnlyWhileActive ==
  [][ ( /\ lastSend' # lastSend \/ ws'.sent # ws.sent
        /\ lastSend'.op \in {"sendText", "sendAudio"}
        /\ ~Active(stream) )
      => (lastSend'.threw = NotReadyError /\ ws'.sent = ws.sent) ]_vars

\* C13: when the first error envelope arrives while neither waiter has been
\* fulfilled, whatever happened before, both waiters are afterwards rejected
\* with the WebSocketError of that envelope's message and code.
C13_ErrorBeforeResolveRejectsBothAlike ==
  [][ LET q == stream'.messageQueue
      IN ( /\ Len(q) = Len(stream.messageQueue) + 1
           /\ IsType(q[Len(q)], "error")
           /\ ~Received(stream.messageQueue, "error")
           /\ stream.readyPromise.state # "fulfilled"
           /\ stream.endPromise.state # "fulfilled" )
         => LET failure == Rejected(WebSocketError(q[Len(q)].message, q[Len(q)].code))
            IN /\ Is(stream'.readyPromise, failure)
               /\ Is(stream'.endPromise, failure) ]_vars

\* C14: a payload that is not JSON, received while both waiters are pending,
\* rejects both: the pending waitReady() calls and the pending collect() /
\* collectText() calls are rejected, and so is every later one.
C14_MalformedRejectsBoth ==
  [][ ( /\ inbound'.count = inbound.count + 1
        /\ stream.readyPromise.state = "pending"
        /\ stream.endPromise.state = "pending"
        /\ stream' = onmessage(stream, Garbage) )
      => /\ waitReady(stream').state = "rejected"
         /\ collect(stream').state = "rejected"
         /\ \A i \in DOMAIN readyCalls' : readyCalls'[i].state = "rejected"
         /\ \A i \in DOMAIN collectCalls' : collectCalls'[i].state = "rejected" ]_vars

\* The type tags of the server messages of each endpoint.
RecognizedTags(k) ==
  IF k = "tts" THEN {"ready", "audio", "error", "end_of_stream"}
  ELSE {"ready", "text", "step", "end_text", "error", "end_of_stream"}

\* C15: no envelope whose type tag is not a server message of the endpoint
\* is in the message buffer of a session that has not failed.
C15_UnknownTagNotBuffered ==
  \A i \in DOMAIN stream.messageQueue :
    LET m == stream.messageQueue[i]
    IN (~IsNull(m) /\ m.type \notin RecognizedTags(stream.kind))
         => stream.endPromise.state = "rejected"

\* C16: on a session made by TTS.stream() / STT.stream(), an error event of
\* the open socket that finds both waiters pending rejects them, and every
\* waitReady() and collect() / collectText() call, with a ConnectionError.
C16_TransportErrorAfterOpenFails ==
  [][ ( /\ factory'.errors = factory.errors + 1
        /\ ws.readyState = "OPEN"
        /\ stream.readyPromise.state = "pending"
        /\ stream.endPromise.state = "pending" )
      => /\ waitReady(stream').state = "rejected"
         /\ waitReady(stream').value.name = "ConnectionError"
         /\ collect(stream').state = "rejected"
         /\ collect(stream').value.name = "ConnectionError"
         /\ \A i \in DOMAIN readyCalls' : readyCalls'[i].state = "rejected"
         /\ \A i \in DOMAIN collectCalls' : collectCalls'[i].state = "rejected" ]_vars

\* C17: a close event with wasClean = false, whatever its code, that finds
\* both waiters pending rejects them with a failure carrying the event's
\* code and reason.
C17_UncleanCloseRejectsBoth ==
  [][ ( /\ inbound.closed = NoValue
        /\ inbound'.closed # NoValue
        /\ ~inbound'.closed.wasClean
        /\ stream.readyPromise.state = "pending"
        /\ stream.endPromise.state = "pending" )
      => LET event == inbound'.closed
             failure == Rejected(WebSocketError(
                          "WebSocket closed unexpectedly: " \o event.reason, event.code))
         IN /\ Is(waitReady(stream'), failure)
            /\ Is(collect(stream'), failure) ]_vars

\* The end waiter is rejected, and no error envelope has been received: the
\* failure is a transport error, an unclean close or an undecodable payload.
FailedByChannelOrDecode(s) ==
  s.endPromise.state = "rejected" /\ ~Received(s.messageQueue, "error")

\* C18: once collect() / collectText() fails because of a transport error,
\* an unclean close or a decode failure, every iterator, started before or
\* after, eventually terminates by throwing; none polls forever.
C18_IteratorsObserveChannelFailure ==
  \A i \in 1..MaxLiveIters :
    [](( /\ i \in DOMAIN iters
         /\ iters[i].pc # "done"
         /\ FailedByChannelOrDecode(stream) )
       => <>(i \in DOMAIN iters /\ iters[i].pc = "threw"))

\* C19: from every state, a second close() does not throw and leaves the
\* session and the socket exactly as the first close() left them.
C19_CloseTwiceIsCloseOnce ==
  LET once  == close(stream, ws)
      twice == close(once.stream, once.ws)
  IN /\ once.threw = NoValue
     /\ twice.threw = NoValue
     /\ twice.stream = once.stream
     /\ twice.ws = once.ws
     /\ once.ws.readyState = "CLOSED"
     /\ (lastSend.op = "close" => (lastSend.threw = NoValue /\ ws.readyState = "CLOSED"))

C19_Witness ==
  /\ lastSend.op = "close"
  /\ ws.readyState = "CLOSED"
  /\ inbound.closed = NoValue
  /\ stream.isReady
  /\ Len(stream.messageQueue) >= 2

\* A step of close(): no event is dispatched and no call is made.
CloseStep ==
  /\ inbound' = inbound
  /\ Len(readyCalls') = Len(readyCalls)
  /\ Len(collectCalls') = Len(collectCalls)
  /\ lastSend'.op = "close"

\* close() changes nothing but the socket's readyState.
CloseFrame ==
  CloseStep =>
    /\ stream' = stream
    /\ ws'.sent = ws.sent
    /\ ws'.readyState = "CLOSED"
    /\ \A i \in DOMAIN readyCalls : Is(readyCalls'[i], readyCalls[i])
    /\ \A i \in DOMAIN collectCalls : Is(collectCalls'[i], collectCalls[i])

\* The waiter p of the session is settled in this step.
Settles(p) == stream[p].state = "pending" /\ stream'[p].state # "pending"

\* C20 as stated: close() settles no waiter and changes no buffer, isReady
\* or requestId; a waiter is settled only by a ready, error or end_of_stream
\* envelope or by a channel failure, so a rejection is a WebSocketError or a
\* ConnectionError.
C20_OnlyEnvelopesAndChannelFailuresSettle ==
  [][ /\ CloseFrame
      /\ \A p \in {"readyPromise", "endPromise"} :
           Settles(p) =>
             /\ inbound'.count = inbound.count + 1
             /\ stream'[p].state = "rejected"
                  => stream'[p].value.name \in {"WebSocketError", "ConnectionError"} ]_vars

\* C20, amended: close() settles no waiter and changes no buffer, isReady or
\* requestId; a waiter is settled only in the handler of an inbound event,
\* and a rejection that is neither a WebSocketError nor a ConnectionError is
\* that of the end waiter by a payload whose handling threw.
C20_OnlyInboundEventsSettle ==
  [][ /\ CloseFrame
      /\ \A p \in {"readyPromise", "endPromise"} :
           Settles(p) =>
             /\ inbound'.count = inbound.count + 1
             /\ (stream'[p].state = "rejected"
                  /\ stream'[p].value.name \notin {"WebSocketError", "ConnectionError"})
                  => ( /\ p = "endPromise"
                       /\ stream'.readyPromise = stream.readyPromise
                       /\ stream'[p].value \in {SyntaxError, TypeError, InvalidCharacterError} ) ]_vars

C20_Witness ==
  /\ lastSend.op = "close"
  /\ ws.readyState = "CLOSED"
  /\ inbound.closed = NoValue
  /\ Len(stream.messageQueue) > 0
  /\ stream.readyPromise.state = "pending"
  /\ stream.endPromise.state = "pending"
  /\ Len(readyCalls) = 1
  /\ readyCalls[1].state = "pending"
  /\ Len(collectCalls) = 1
  /\ collectCalls[1].state = "pending"

\* close() has been called and the socket has reported its close event.
ClosedByCaller == lastSend.op = "close" /\ inbound.closed # NoValue

\* C21: once close() has been called and the socket has reported the close,
\* every suspended waitReady() and collect() / collectText() call settles
\* and every suspended iterator completes or throws.
C21_CloseUnblocksConsumers ==
  /\ \A i \in 1..MaxCancelCalls :
       [](( /\ ClosedByCaller
            /\ i \in DOMAIN readyCalls
            /\ readyCalls[i].state = "pending" )
          => <>(i \in DOMAIN readyCalls /\ readyCalls[i].state # "pending"))
  /\ \A i \in 1..MaxCancelCalls :
       [](( /\ ClosedByCaller
            /\ i \in DOMAIN collectCalls
            /\ collectCalls[i].state = "pending" )
          => <>(i \in DOMAIN collectCalls /\ collectCalls[i].state # "pending"))
  /\ \A i \in 1..MaxCancelIters :
       [](( /\ ClosedByCaller
            /\ i \in DOMAIN iters
            /\ iters[i].pc \notin {"done", "threw"} )
          => <>(i \in DOMAIN iters /\ iters[i].pc \in {"done", "threw"}))

\* The envelope types of a sent log.
SentTypes(sent) == [i \in DOMAIN sent |-> sent[i].value.type]

\* C22: a session made by TTS.stream() / STT.stream() writes nothing while
\* the socket is connecting; once it is open the sent log starts with the
\* setup message, whose model_name is the one given or "default", and holds
\* no other setup message; the factory's promise is fulfilled only with the
\* setup message written.
C22_SetupOnceOnOpen ==
  /\ ws.readyState = "CONNECTING" => (ws.sent = <<>> /\ factory.promise.state # "fulfilled")
  /\ ws.readyState # "CONNECTING" =>
       /\ Len(ws.sent) >= 1
       /\ ws.sent[1].value.type = "setup"
       /\ ws.sent[1].value.model_name =
            (IF factory.params.model_name = "" THEN "default" ELSE factory.params.model_name)
       /\ \A i \in 2..Len(ws.sent) : ws.sent[i].value.type # "setup"
       /\ Is(factory.promise, Fulfilled([session |-> stream.kind]))

C22_Witness ==
  /\ factory.promise.state = "fulfilled"
  /\ factory.params.model_name = ""
  /\ SentTypes(ws.sent) \in {<<"setup", "text">>, <<"setup", "audio">>}
  /\ inbound.count = MaxFactoryEvents

\* C23: an error event of a socket that has not opened rejects the promise
\* of TTS.stream() / STT.stream() with a ConnectionError; no setup message
\* is written then or later, and the promise is never fulfilled.
C23_ErrorBeforeOpenRejects ==
  [][ /\ (factory'.errors = factory.errors + 1 /\ ws.readyState = "CONNECTING")
          => /\ factory'.promise.state = "rejected"
             /\ factory'.promise.value.name = "ConnectionError"
      /\ factory.promise.state = "rejected"
          => (ws.sent = <<>> /\ ws'.sent = <<>> /\ factory'.promise = factory.promise) ]_vars

C23_Witness ==
  /\ ws.readyState = "CONNECTING"
  /\ factory.errors = 1
  /\ factory.promise.state = "rejected"
  /\ ws.sent = <<>>

\* C24: TTS.create writes exactly the setup message on open and then, only
\* after ready has been received, the text message with the whole text and
\* end_of_stream; when it returns, the result is what collect() yields at
\* that moment, end_of_stream having been received.
C24_CreateStepsInOrder ==
  [][ orch.op = "create" =>
        /\ SentTypes(ws'.sent) \in {<<>>, <<"setup">>, <<"setup", "text", "end_of_stream">>}
        /\ Len(ws'.sent) = 3 =>
             /\ ws'.sent[2].value.text = orch.input
             /\ Received(stream'.messageQueue, "ready")
             /\ orch'.pc \in {"collect", "done"}
        /\ orch'.pc = "collect" => Len(ws'.sent) = 3
        /\ (orch.result.state = "pending" /\ orch'.result.state = "fulfilled") =>
             /\ Len(ws.sent) = 3
             /\ Received(stream.messageQueue, "end_of_stream")
             /\ Is(orch'.result, collect(stream))
             /\ orch'.result.value.raw_data = DecodedAudio(stream.messageQueue) ]_vars

C24_Witness ==
  /\ orch.op = "create"
  /\ orch.result.state = "fulfilled"
  /\ Len(orch.result.value.raw_data) > 0
  /\ SentTypes(ws.sent) = <<"setup", "text", "end_of_stream">>

\* The i-th slice of at most size elements of a sequence.
SliceOf(seq, size, i) ==
  SubSeq(seq, (i - 1) * size + 1, IF i * size < Len(seq) THEN i * size ELSE Len(seq))

\* C25: STT.transcribe of n bytes writes, once ready has been received,
\* ceil(n / 3840) audio messages whose payloads are the consecutive slices
\* of at most 3840 bytes of the input, then one end_of_stream; for n = 0 it
\* writes end_of_stream only.
C25_TranscribeChunks ==
  [][ orch.op = "transcribe" =>
        LET n      == Len(orch.input)
            count  == (n + TranscribeChunkSize - 1) \div TranscribeChunkSize
        IN /\ Len(ws'.sent) <= 1 => orch'.pc \in {"stream", "waitReady", "done"}
           /\ orch'.pc = "collect" => Len(ws'.sent) > 1
           /\ Len(ws.sent) > 1 => ws'.sent = ws.sent
           /\ (Len(ws.sent) <= 1 /\ Len(ws'.sent) > 1) =>
                /\ Received(stream.messageQueue, "ready")
                /\ SentTypes(ws'.sent) =
                     <<"setup">> \o [i \in 1..count |-> "audio"] \o <<"end_of_stream">>
                /\ \A i \in 1..count :
                     atob(ws'.sent[i + 1].value.audio) =
                       [ok |-> TRUE, bytes |-> SliceOf(orch.input, TranscribeChunkSize, i)] ]_vars

C25_Witness ==
  /\ orch.op = "transcribe"
  /\ Len(orch.input) = 2 * TranscribeChunkSize + 1
  /\ SentTypes(ws.sent) = <<"setup", "audio", "audio", "audio", "end_of_stream">>
  /\ orch.result.state = "fulfilled"

\* C27: TTS.create / STT.transcribe rejects with the very failure of the
\* promise it is suspended on (the factory's ConnectionError, the
\* WebSocketError of an error envelope before ready or after the input was
\* sent), unchanged, and then never returns a result.
C27_PropagatesFirstFailure ==
  [][ orch.op \in {"create", "transcribe"} =>
        /\ (orch.result.state = "pending" /\ orch'.result.state = "rejected") =>
             /\ Awaited(orch, factory, stream).state = "rejected"
             /\ orch'.result = Awaited(orch, factory, stream)
             /\ orch.pc = "stream" =>
                  orch'.result.value.name = "ConnectionError"
             /\ (orch.pc = "waitReady" /\ FirstIsError) =>
                  orch'.result.value = WebSocketError(FirstError.message, FirstError.code)
             /\ ( /\ orch.pc = "collect"
                  /\ Received(stream.messageQueue, "error")
                  /\ inbound.faults = 0 ) =>
                  CarriesError(stream.messageQueue, orch'.result)
        /\ orch'.result.state = "fulfilled" =>
             /\ factory'.promise.state = "fulfilled"
             /\ stream'.readyPromise.state = "fulfilled"
             /\ stream'.endPromise.state = "fulfilled"
        /\ orch.result.state # "pending" => orch'.result = orch.result ]_vars

C27_Witness ==
  /\ orch.op \in {"create", "transcribe"}
  /\ orch.result.state = "rejected"
  /\ orch.result.value.name = "WebSocketError"
  /\ "end_of_stream" \in {SentTypes(ws.sent)[i] : i \in DOMAIN ws.sent}
  /\ Received(stream.messageQueue, "error")

\* The envelope type a send operation writes.
TypeWritten(op) ==
  CASE op = "sendText"        -> "text"
    [] op = "sendAudio"       -> "audio"
    [] op = "sendEndOfStream" -> "end_of_stream"

\* C28: a send call changes nothing of the session (fields, waiters,
\* iterators, buffers); sendText / sendAudio on a ready session and
\* sendEndOfStream in any phase return normally and append exactly one
\* envelope of their type to the sent log, after those already written; a
\* call that throws writes nothing; sendEndOfStream leaves the phase as it is.
C28_SendsOnlyWrite ==
  [][ (lastSend' # lastSend \/ ws'.sent # ws.sent) =>
        LET op == lastSend'.op
        IN /\ UNCHANGED <<stream, inbound, readyCalls, collectCalls, iters>>
           /\ ws'.readyState = ws.readyState
           /\ lastSend'.before = ws.sent
           /\ (stream.isReady \/ op = "sendEndOfStream") <=> lastSend'.threw = NoValue
           /\ lastSend'.threw # NoValue => ws'.sent = ws.sent
           /\ lastSend'.threw = NoValue =>
                /\ Len(ws'.sent) = Len(ws.sent) + 1
                /\ SubSeq(ws'.sent, 1, Len(ws.sent)) = ws.sent
                /\ ws'.sent[Len(ws'.sent)].wellFormed
                /\ ws'.sent[Len(ws'.sent)].value.type = TypeWritten(op)
           /\ op = "sendEndOfStream" =>
                /\ Terminal(stream') = Terminal(stream)
                /\ Active(stream') = Active(stream)
                /\ stream'.endPromise = stream.endPromise ]_vars

C28_Witness ==
  /\ lastSend.op = "sendEndOfStream"
  /\ lastSend.threw = NoValue
  /\ ~Received(stream.messageQueue, "ready")
  /\ stream.endPromise.state = "pending"
  /\ inbound.count > 0
  /\ SentTypes(ws.sent) = <<"end_of_stream", "end_of_stream">>

\* C29: the audio message written by STTStream.sendAudio(b) parses back to
\* an audio message whose payload base64-decodes to exactly b, and an inbound
\* audio message carrying the base64 of b makes TTSStream store exactly b as
\* its next chunk, for every byte sequence b of up to MaxPayloadLen bytes.
C29_PayloadRoundTrip ==
  [][ orch.op = "payload" =>
        LET b == orch.input
        IN /\ (lastSend'.op = "sendAudio" /\ ws'.sent # ws.sent) =>
                LET parsed == JSONparse(ws'.sent[Len(ws'.sent)])
                IN /\ stream.isReady
                   /\ Len(ws'.sent) = Len(ws.sent) + 1
                   /\ parsed.ok
                   /\ parsed.value.type = "audio"
                   /\ parsed.value = AudioMsg(btoa(b))
                   /\ atob(parsed.value.audio) = [ok |-> TRUE, bytes |-> b]
           /\ ( /\ Len(stream'.messageQueue) = Len(stream.messageQueue) + 1
                /\ IsType(stream'.messageQueue[Len(stream'.messageQueue)], "audio") ) =>
                /\ stream'.messageQueue[Len(stream'.messageQueue)] = AudioMsg(btoa(b))
                /\ stream'.audioChunks = Append(stream.audioChunks, b)
                /\ stream'.endPromise = stream.endPromise ]_vars

C29_Witness ==
  /\ orch.op = "payload"
  /\ Len(orch.input) = 2
  /\ orch.input[1] = 255
  /\ lastSend.op = "sendAudio"
  /\ lastSend.threw = NoValue
  /\ Len(ws.sent) = 1
  /\ ws.sent[1].value.audio[4] = Pad
  /\ atob(ws.sent[1].value.audio).bytes = orch.input

\* The error class the status of a response stands for.
KindOfStatus(status) ==
  CASE status = 401 \/ status = 403 -> "AuthenticationError"
    [] status = 404                 -> "NotFoundError"
    [] status = 422                 -> "ValidationError"
    [] status = 429                 -> "RateLimitError"
    [] status >= 500                -> "InternalServerError"
    [] OTHER                        -> "APIError"

\* C30: handleAPIError always throws, and the class of the error it throws
\* is the one of the response's status whatever the body is: 401 / 403
\* AuthenticationError, 404 NotFoundError, 422 ValidationError with the
\* detail list, 429 RateLimitError with the retry-after seconds, 500 and
\* above InternalServerError with the status, APIError otherwise.
C30_KindDeterminedByStatus ==
  http.outcome # NoValue =>
    LET status == http.response.status
        error  == http.outcome.threw
    IN /\ error.name = KindOfStatus(status)
       /\ status = 422 => error.errors = http.outcome.body.detail.items
       /\ (status = 429 /\ http.response.retryAfter = "60") => error.retryAfter = [number |-> 60]
       /\ status >= 500 => error.status = status

\* The item an input envelope carries.
ItemOf(e) == IF e.value.type = "text" THEN e.value.text ELSE atob(e.value.audio).bytes

\* The feeding task can take its next step.
FeederCanStep == ENABLED (GenYield \/ GenDone \/ GenThrow)

\* C26: streamText / streamAudio returns the session once ready was received,
\* with nothing of the input written; the feeding task then writes one text /
\* audio envelope per generated item, in generation order, and exactly one
\* end_of_stream after the last; a step of the feeder leaves the session and
\* the iterators alone and a step of the channel or of an iterator leaves the
\* feeder alone, each being able to step whatever the others do; what the
\* caller's iterator has yielded is a prefix, in arrival order, of the output
\* received, all of it when it completes.
C26_FeederAndConsumerIndependent ==
  [][ orch.op \in {"streamText", "streamAudio"} =>
        LET body == Tail(ws'.sent)
            n    == Len(orch'.input)
        IN /\ (orch.result.state = "pending" /\ orch'.result.state = "fulfilled") =>
                /\ Received(stream.messageQueue, "ready")
                /\ orch'.result.value = [session |-> stream.kind]
                /\ orch'.input = <<>>
                /\ SentTypes(ws'.sent) = <<"setup">>
           /\ orch'.result.state # "fulfilled" => (Len(ws'.sent) <= 1 /\ iters' = <<>>)
           /\ orch'.pc \in {"feeding", "fed", "aborted"} =>
                /\ Len(body) = n + (IF orch'.pc = "fed" THEN 1 ELSE 0)
                /\ \A i \in 1..n :
                     /\ body[i].value.type = (IF stream.kind = "tts" THEN "text" ELSE "audio")
                     /\ ItemOf(body[i]) = orch'.input[i]
                /\ orch'.pc = "fed" => body[n + 1].value.type = "end_of_stream"
           /\ (orch'.input # orch.input \/ ws'.sent # ws.sent) =>
                UNCHANGED <<stream, inbound, readyCalls, collectCalls, iters>>
           /\ (inbound' # inbound \/ iters' # iters) =>
                (orch.pc = "feeding" => (orch' = orch /\ ws'.sent = ws.sent))
           /\ orch.pc = "feeding" => FeederCanStep
           /\ \A i \in DOMAIN iters :
                /\ iters[i].pc \in {"start", "yield"} => ENABLED IterNext
                /\ iters[i].pc = "sleep" => ENABLED IterWake
           /\ \A i \in DOMAIN iters' :
                iters'[i].sel # "all" =>
                  LET items == ItemsOf(iters'[i].sel, stream'.messageQueue)
                  IN /\ IsPrefix(iters'[i].yielded, items)
                     /\ CompletesNow(i) => iters'[i].yielded = items ]_vars

C26_Witness ==
  /\ orch.op \in {"streamText", "streamAudio"}
  /\ orch.pc = "fed"
  /\ Len(orch.input) = 2
  /\ orch.input[1] # orch.input[2]
  /\ Len(iters) = 1
  /\ iters[1].pc = "done"
  /\ Len(iters[1].yielded) > 0
  /\ SentTypes(ws.sent)[Len(ws.sent)] = "end_of_stream"

\* C31: once the session is Ended or Failed, no inbound message or channel
\* event makes it sendable or changes what collect() / collectText() yields.
C31_TerminalIsAbsorbing ==
  [][ Terminal(stream) =>
        /\ Terminal(stream')
        /\ stream'.isReady = stream.isReady
        /\ Is(collect(stream'), collect(stream)) ]_vars

\* C32: collect() / collectText() has resolved successfully only on a session
\* that received a ready envelope before its end_of_stream.
C32_EndedOnlyAfterActive ==
  \A i \in DOMAIN collectCalls :
    collectCalls[i].state = "fulfilled" =>
      LET q == stream.messageQueue
      IN /\ Received(q, "ready")
         /\ FirstOf(q, "ready") < FirstOf(q, "end_of_stream")

\* C33: requestId, sampleRate and frameSize change only at the arrival of the
\* first ready envelope; a later message, a second ready included, leaves
\* them as they are.
C33_ReadyMetadataSetOnce ==
  [][ Received(stream.messageQueue, "ready") =>
        /\ stream'.requestId = stream.requestId
        /\ stream'.sampleRate = stream.sampleRate
        /\ stream'.frameSize = stream.frameSize ]_vars

\* A terminal envelope has been received.
EndReceived(q) == Received(q, "end_of_stream") \/ Received(q, "error")

\* The entries of q before its first null entry.
BeforeNull(q) ==
  IF \E i \in DOMAIN q : IsNull(q[i])
  THEN SubSeq(q, 1, (CHOOSE i \in DOMAIN q : IsNull(q[i]) /\ \A j \in 1..(i - 1) : ~IsNull(q[j])) - 1)
  ELSE q

Buffers == {"messageQueue", "audioChunks", "textResults", "vadResults"}

\* C35: in every step of every operation and event each buffer keeps its
\* previous contents as a prefix of the new ones, and a buffer grows only in
\* the step of a message event, by the one message received.
C35_BuffersAppendOnly ==
  [][ /\ \A b \in Buffers : IsPrefix(stream[b], stream'[b])
      /\ (\E b \in Buffers : stream'[b] # stream[b]) =>
           /\ inbound'.count = inbound.count + 1
           /\ inbound'.closed = inbound.closed
           /\ Len(stream'.messageQueue) = Len(stream.messageQueue) + 1
           /\ \A b \in Buffers : Len(stream'[b]) <= Len(stream[b]) + 1
           /\ UNCHANGED <<ws, iters, lastSend>> ]_vars

C35_Witness ==
  /\ Len(stream.messageQueue) = 2
  /\ Len(stream.textResults) = 2
  /\ Len(iters) = 1
  /\ iters[1].pc = "yield"
  /\ ws.readyState = "CLOSED"
  /\ Len(ws.sent) > 0

\* The messages of type t in q, in order.
OfType(q, t) == SelectSeq(q, LAMBDA m : IsType(m, t))

\* C36 as stated: audioChunks corresponds one to one, in order, to the audio
\* messages of messageQueue, textResults is its text messages and vadResults
\* its step messages.
C36_DerivedBuffersAreProjections ==
  LET q == stream.messageQueue
  IN IF stream.kind = "tts"
     THEN /\ Len(stream.audioChunks) = Len(OfType(q, "audio"))
          /\ \A i \in DOMAIN stream.audioChunks :
               atob(OfType(q, "audio")[i].audio) = [ok |-> TRUE, bytes |-> stream.audioChunks[i]]
     ELSE /\ stream.textResults = OfType(q, "text")
          /\ stream.vadResults = OfType(q, "step")

\* C36, amended: audioChunks is, in order, the decoded payloads of the audio
\* messages of messageQueue whose payload is base64, an audio message whose
\* payload does not decode having no chunk; textResults is the text messages
\* of messageQueue and vadResults its step messages; the buffers of the other
\* kind of session stay empty.
C36_DerivedBuffersAreDecodableProjections ==
  LET q == stream.messageQueue
      decodable == SelectSeq(OfType(q, "audio"), LAMBDA m : atob(m.audio).ok)
  IN IF stream.kind = "tts"
     THEN /\ stream.audioChunks = [i \in DOMAIN decodable |-> atob(decodable[i].audio).bytes]
          /\ stream.textResults = <<>>
          /\ stream.vadResults = <<>>
     ELSE /\ stream.textResults = OfType(q, "text")
          /\ stream.vadResults = OfType(q, "step")
          /\ stream.audioChunks = <<>>

C36_Witness ==
  /\ stream.kind = "tts"
  /\ Len(OfType(stream.messageQueue, "audio")) = 2
  /\ Len(stream.audioChunks) = 1
  /\ stream.endPromise.state = "rejected"

\* C38: a fulfilled ready waiter implies isReady, isReady never goes back to
\* false, and no sendText / sendAudio call made after waitReady() succeeded
\* throws the not-ready error, whatever was received or closed in between.
C38_ReadyStaysReady ==
  [][ /\ stream'.readyPromise.state = "fulfilled" => stream'.isReady
      /\ stream.isReady => stream'.isReady
      /\ ( /\ lastSend'.op \in {"sendText", "sendAudio"}
           /\ lastSend' # lastSend \/ ws'.sent # ws.sent
           /\ \/ stream.readyPromise.state = "fulfilled"
              \/ \E i \in DOMAIN readyCalls : readyCalls[i].state = "fulfilled" )
         => (lastSend'.threw = NoValue /\ Len(ws'.sent) = Len(ws.sent) + 1) ]_vars

C38_Witness ==
  /\ Len(readyCalls) = 1
  /\ readyCalls[1].state = "fulfilled"
  /\ Received(stream.messageQueue, "error")
  /\ ws.readyState = "CLOSED"
  /\ lastSend.op \in {"sendText", "sendAudio"}
  /\ lastSend.threw = NoValue
  /\ Len(ws.sent) = 1

\* m is an end_of_stream or error envelope.
IsTerminalEnvelope(m) == IsType(m, "end_of_stream") \/ IsType(m, "error")

RECURSIVE Replay(_, _)
Replay(k, q) ==
  IF q = <<>> THEN NewStream(k)
  ELSE onmessage(Replay(k, SubSeq(q, 1, Len(q) - 1)), Json(q[Len(q)]))

\* A session but for its end waiter.
ButEnd(s) == [s EXCEPT !.endPromise = Pending]

\* C39: the step that handles a payload that is not JSON changes nothing of
\* the session but the end waiter, which it rejects if it is pending; apart
\* from the end waiter the session is always the one that has received the
\* well-formed envelopes alone, so that a later ready resolves waitReady()
\* and a send on the ready session succeeds.
C39_GarbageTouchesEndWaiterOnly ==
  [][ /\ inbound'.faults = inbound.faults + 1 =>
           /\ stream' = [stream EXCEPT !.endPromise = Reject(@, SyntaxError)]
           /\ stream'.messageQueue = stream.messageQueue
           /\ \A i \in DOMAIN readyCalls : Is(readyCalls'[i], readyCalls[i])
           /\ ws' = ws
      /\ ButEnd(stream') = ButEnd(Replay(stream'.kind, stream'.messageQueue))
      /\ inbound'.faults > 0 =>
           /\ Received(stream'.messageQueue, "ready") =>
                /\ stream'.isReady
                /\ \A i \in DOMAIN readyCalls' : readyCalls'[i].state # "pending"
                /\ ~Received(stream'.messageQueue, "error") =>
                     /\ stream'.readyPromise.state = "fulfilled"
                     /\ \A i \in DOMAIN readyCalls' : readyCalls'[i].state = "fulfilled"
           /\ ( /\ lastSend' # lastSend \/ ws'.sent # ws.sent
                /\ Received(stream.messageQueue, "ready") )
                => (lastSend'.threw = NoValue /\ Len(ws'.sent) = Len(ws.sent) + 1) ]_vars

C39_Witness ==
  /\ inbound.count = 2
  /\ inbound.first.ev = "message"
  /\ inbound.first.data = Garbage
  /\ Len(stream.messageQueue) = 1
  /\ stream.isReady
  /\ Len(readyCalls) = 1
  /\ readyCalls[1].state = "fulfilled"
  /\ stream.endPromise = Rejected(SyntaxError)
  /\ lastSend.threw = NoValue
  /\ Len(ws.sent) = 1

\* C40: when the generator throws after k items, the sent log holds the
\* setup message and exactly the k input envelopes in order; the step leaves
\* the session, its waiters and its iterators as they were; and from then on
\* the feeder writes nothing, no end_of_stream in particular, while the
\* session goes on receiving and being iterated.
C40_GeneratorFailureStaysInFeeder ==
  [][ /\ (orch.pc = "feeding" /\ orch'.pc = "aborted") =>
           /\ ws' = ws
           /\ orch'.input = orch.input
           /\ orch'.result = orch.result
           /\ UNCHANGED <<stream, readyCalls, collectCalls, iters, inbound>>
      /\ orch.pc = "aborted" =>
           /\ orch' = orch
           /\ ws'.sent = ws.sent
      /\ orch'.pc = "aborted" =>
           LET body == Tail(ws'.sent)
           IN /\ Len(body) = Len(orch'.input)
              /\ \A i \in DOMAIN body :
                   /\ body[i].value.type = (IF stream.kind = "tts" THEN "text" ELSE "audio")
                   /\ ItemOf(body[i]) = orch'.input[i]
              /\ \A i \in DOMAIN ws'.sent : ws'.sent[i].value.type # "end_of_stream"
              /\ orch'.result.state = "fulfilled" ]_vars

C40_Witness ==
  /\ orch.pc = "aborted"
  /\ Len(orch.input) = 1
  /\ SentTypes(ws.sent) \in {<<"setup", "text">>, <<"setup", "audio">>}
  /\ Received(stream.messageQueue, "end_of_stream")
  /\ stream.endPromise.state = "fulfilled"
  /\ Len(iters) = 1
  /\ iters[1].pc = "done"

====
